---- MODULE Spec2Model ----
(***************************************************************************)
(* Provider-graph analyzer, call-plan solver and injector generator of     *)
(* wire (internal/wire/analyze.go, parse.go, wire.go).                     *)
(*                                                                         *)
(* Types are opaque handles compared by identity (types.Identical); they   *)
(* are the numbers 1..NumTypes, and types.TypeString orders them as the    *)
(* numbers are ordered.  A typeutil.Map is a function whose DOMAIN is the  *)
(* set of keys; Map.At(k) = nil is k \notin DOMAIN.                        *)
(***************************************************************************)
EXTENDS Integers, Sequences, FiniteSets, TLC

VARIABLES
    phase,      \* position of the run: which pass comes next
    cache,      \* objectCache: the provider sets built so far, in build order
    buildErrs,  \* the errors returned by the last processNewSet
    decl,       \* the members named by the wire.NewSet / wire.Build call at hand
    inj,        \* the injector stub: [out, given, cleanup, err, scope]
    pset,       \* the provider set processNewSet built for the injector
    sv,         \* solve's locals: [index, stk, calls, used, errs]
    result,     \* what solve / gen.inject returned: [calls, errs]
    code,       \* the injector body emitted by injectPass
    run,        \* execution of the emitted injector
    heap        \* the objects passed around by pointer: sets and typeutil.Maps

vars == <<phase, cache, buildErrs, decl, inj, pset, sv, result, code, run, heap>>

----------------------------------------------------------------------------
(* Bounds of the model.                                                    *)

NumTypes == 3
MaxArgs == 2
MaxGiven == 1
MaxSets == 3
MaxItems == 4
MaxInputs == 2
MaxStmts == 3
MaxPkgs == 2
MaxDecls == 2
MaxNameLen == 2
MaxSuffix == 3

Types == 1..NumTypes

----------------------------------------------------------------------------
(* Helpers on sequences and maps.                                          *)

Range(s) == {s[i] : i \in 1..Len(s)}

NoDup(s) == \A i, j \in 1..Len(s) : i # j => s[i] # s[j]

\* Sequences over S of length at most n.
SeqsUpTo(S, n) == UNION {[1..k -> S] : k \in 0..n}

\* Map.Set(k, v)
MapSet(m, k, v) == (k :> v) @@ m

EmptyMap == << >>

\* The keys of a map listed in the order ord visits them (ord lists Types).
KeysInOrder(m, ord) == SelectSeq(ord, LAMBDA k : k \in DOMAIN m)

Perms(S) == {f \in [1..Cardinality(S) -> S] : \A x \in S : \E i \in DOMAIN f : f[i] = x}

\* errorCollector.add
ecAdd(errs, e) == Append(errs, e)

----------------------------------------------------------------------------
(* The records of parse.go.                                                *)

\* Provider: a function (or named struct) provider.
MkProvider(name, args, outs, isStruct, hasCleanup, hasErr) ==
    [Name |-> name, Pos |-> name, Args |-> args, IsStruct |-> isStruct,
     Out |-> outs, HasCleanup |-> hasCleanup, HasErr |-> hasErr]

\* Value: wire.Value / wire.InterfaceValue at position pos producing out.
MkValue(pos, out) == [Pos |-> pos, Out |-> out]

\* IfaceBinding: wire.Bind(new(iface), provided) at position pos.
MkBinding(pos, iface, provided) == [Pos |-> pos, Iface |-> iface, Provided |-> provided]

\* ProvidedType{t, p} and ProvidedType{t, v}
PTProvider(t, p) == [t |-> t, kind |-> "provider", p |-> p]
PTValue(t, v) == [t |-> t, kind |-> "value", v |-> v]
NilPT == [kind |-> "nil"]

IsNil(pv) == pv.kind = "nil"
IsProvider(pv) == pv.kind = "provider"
IsValue(pv) == pv.kind = "value"
ConcreteType(pv) == pv.t

\* ProviderSet.For
For(set, t) == IF t \in DOMAIN set.providerMap THEN set.providerMap[t] ELSE NilPT

\* providerSetSrc: exactly one of the four fields is set.
SrcProvider(p) == [kind |-> "Provider", Provider |-> p]
SrcBinding(b) == [kind |-> "Binding", Binding |-> b]
SrcValue(v) == [kind |-> "Value", Value |-> v]
SrcImport(s) == [kind |-> "Import", Import |-> s]

\* providerSetSrc.description
description(p) ==
    CASE p.kind = "Provider" ->
           [what |-> IF p.Provider.IsStruct THEN "struct provider" ELSE "provider",
            name |-> p.Provider.Name, pos |-> p.Provider.Pos]
      [] p.kind = "Binding" -> [what |-> "wire.Bind", name |-> 0, pos |-> p.Binding.Pos]
      [] p.kind = "Value" -> [what |-> "wire.Value", name |-> 0, pos |-> p.Value.Pos]
      [] p.kind = "Import" ->
           [what |-> "provider set", name |-> p.Import.VarName, pos |-> p.Import.Pos]

\* providerSetSrc.trace: only Imports need recursion.
RECURSIVE trace(_, _)
trace(p, typ) ==
    LET parent == IF p.kind = "Import" /\ typ \in DOMAIN p.Import.srcMap
                  THEN trace(p.Import.srcMap[typ], typ)
                  ELSE << >>
    IN Append(parent, description(p))

----------------------------------------------------------------------------
(* buildProviderMap (analyze.go).                                          *)

bindingConflictError(typ, set, cur, prev) ==
    [kind |-> "conflict", set |-> set.VarName, typ |-> typ,
     current |-> trace(cur, typ), previous |-> trace(prev, typ)]

noBindingError(b) == [kind |-> "no binding", typ |-> b.Provided, pos |-> b.Pos]

AddEntryOverwrite(st, set, k, v, src) ==
    [st EXCEPT !.providerMap = MapSet(@, k, v), !.srcMap = MapSet(@, k, src)]

\* One insertion into providerMap / srcMap, or a conflict with the entry
\* srcMap already holds for the key.
AddEntry(st, set, k, v, src) ==
    IF k \in DOMAIN st.srcMap
    THEN [st EXCEPT !.errs = ecAdd(@, bindingConflictError(k, set, src, st.srcMap[k]))]
    ELSE [st EXCEPT !.providerMap = MapSet(@, k, v), !.srcMap = MapSet(@, k, src)]

\* imp.providerMap.Iterate(...) for one import; keys lists imp's keys in the
\* order the iteration visits them.
RECURSIVE AddImportKeys(_, _, _, _)
AddImportKeys(st, set, imp, keys) ==
    IF keys = << >> THEN st
    ELSE AddImportKeys(AddEntry(st, set, Head(keys), imp.providerMap[Head(keys)], SrcImport(imp)),
                       set, imp, Tail(keys))

\* "for _, imp := range set.Imports"; ord[i] lists the keys of the i-th
\* import in the order its Iterate call visits them.
RECURSIVE AddImports(_, _, _, _)
AddImports(st, set, i, ord) ==
    IF i > Len(set.Imports) THEN st
    ELSE AddImports(AddImportKeys(st, set, set.Imports[i], ord[i]), set, i + 1, ord)

RECURSIVE AddProviderOuts(_, _, _, _)
AddProviderOuts(st, set, p, j) ==
    IF j > Len(p.Out) THEN st
    ELSE AddProviderOuts(AddEntry(st, set, p.Out[j], PTProvider(p.Out[j], p), SrcProvider(p)),
                         set, p, j + 1)

RECURSIVE AddProviders(_, _, _)
AddProviders(st, set, i) ==
    IF i > Len(set.Providers) THEN st
    ELSE AddProviders(AddProviderOuts(st, set, set.Providers[i], 1), set, i + 1)

RECURSIVE AddValues(_, _, _)
AddValues(st, set, i) ==
    IF i > Len(set.Values) THEN st
    ELSE LET v == set.Values[i]
         IN AddValues(AddEntry(st, set, v.Out, PTValue(v.Out, v), SrcValue(v)), set, i + 1)

AddBindingNoIfaceCheck(st, set, b) ==
    IF b.Provided \notin DOMAIN st.providerMap
    THEN [st EXCEPT !.errs = ecAdd(@, noBindingError(b))]
    ELSE [st EXCEPT !.providerMap = MapSet(@, b.Iface, st.providerMap[b.Provided]),
                    !.srcMap = MapSet(@, b.Iface, SrcBinding(b))]

\* The body of "for _, b := range set.Bindings".
AddBinding(st, set, b) ==
    IF b.Iface \in DOMAIN st.srcMap
    THEN [st EXCEPT !.errs = ecAdd(@, bindingConflictError(b.Iface, set, SrcBinding(b),
                                                          st.srcMap[b.Iface]))]
    ELSE IF b.Provided \notin DOMAIN st.providerMap
    THEN [st EXCEPT !.errs = ecAdd(@, noBindingError(b))]
    ELSE [st EXCEPT !.providerMap = MapSet(@, b.Iface, st.providerMap[b.Provided]),
                    !.srcMap = MapSet(@, b.Iface, SrcBinding(b))]

RECURSIVE AddBindings(_, _, _)
AddBindings(st, set, i) ==
    IF i > Len(set.Bindings) THEN st
    ELSE AddBindings(AddBinding(st, set, set.Bindings[i]), set, i + 1)

NoMaps(errs) == [providerMap |-> EmptyMap, srcMap |-> EmptyMap, errs |-> errs, ok |-> FALSE]

\* buildProviderMap(fset, hasher, set); ord gives, for every import, the
\* order in which the iteration of its typeutil.Map visits the keys.
\* ok = FALSE stands for the nil maps returned with the errors.
buildProviderMap(set, ord) ==
    LET st0 == [providerMap |-> EmptyMap, srcMap |-> EmptyMap, errs |-> << >>, ok |-> TRUE]
        st1 == AddImports(st0, set, 1, ord)
        st2 == AddValues(AddProviders(st1, set, 1), set, 1)
        st3 == AddBindings(st2, set, 1)
    IN IF st1.errs # << >> THEN NoMaps(st1.errs)
       ELSE IF st2.errs # << >> THEN NoMaps(st2.errs)
       ELSE IF st3.errs # << >> THEN NoMaps(st3.errs)
       ELSE st3

----------------------------------------------------------------------------
(* verifyAcyclic (analyze.go).                                             *)

\* providerMap.Keys() sorted by types.TypeString.
SortedKeys(m) == KeysInOrder(m, [i \in 1..NumTypes |-> i])

\* As IndexIn, without looking at the head of the trail.
IndexInBelowHead(curr, a) ==
    IF \E i \in 1..(Len(curr) - 1) : curr[i] = a
    THEN CHOOSE i \in 1..(Len(curr) - 1) : curr[i] = a /\ \A j \in 1..(i - 1) : curr[j] # a
    ELSE 0

\* The first position of a in the trail curr, or 0.
IndexIn(curr, a) ==
    IF \E i \in 1..Len(curr) : curr[i] = a
    THEN CHOOSE i \in 1..Len(curr) : curr[i] = a /\ \A j \in 1..(i - 1) : curr[j] # a
    ELSE 0

cycleError(providerMap, curr, i, a) ==
    [kind |-> "cycle", typ |-> a,
     trail |-> [j \in 1..(Len(curr) - i + 1) |->
                  <<curr[i + j - 1], providerMap[curr[i + j - 1]].p.Name>>]]

\* The loop over pt.Provider().Args for the trail curr.
RECURSIVE AcyclicArgs(_, _, _, _, _)
AcyclicArgs(providerMap, curr, args, k, st) ==
    IF k > Len(args) THEN st
    ELSE LET a == args[k]
             i == IndexIn(curr, a)
         IN AcyclicArgs(providerMap, curr, args, k + 1,
              IF i # 0
              THEN [st EXCEPT !.errs = ecAdd(@, cycleError(providerMap, curr, i, a))]
              ELSE [st EXCEPT !.stk = Append(@, Append(curr, a))])

\* One iteration of "for len(stk) > 0".
AcyclicStep(providerMap, st) ==
    LET curr == st.stk[Len(st.stk)]
        popped == [st EXCEPT !.stk = SubSeq(@, 1, Len(@) - 1)]
        head == curr[Len(curr)]
    IN IF head \in st.visited THEN popped
       ELSE LET seen == [popped EXCEPT !.visited = @ \cup {head}]
            IN IF head \notin DOMAIN providerMap THEN seen
               ELSE IF IsValue(providerMap[head]) THEN seen
               ELSE AcyclicArgs(providerMap, curr, providerMap[head].p.Args, 1, seen)

RECURSIVE AcyclicLoop(_, _)
AcyclicLoop(providerMap, st) ==
    IF st.stk = << >> THEN st ELSE AcyclicLoop(providerMap, AcyclicStep(providerMap, st))

RECURSIVE AcyclicRoots(_, _, _)
AcyclicRoots(providerMap, outputs, st) ==
    IF outputs = << >> THEN st
    ELSE AcyclicRoots(providerMap, Tail(outputs),
                      AcyclicLoop(providerMap, [st EXCEPT !.stk = <<(<<Head(outputs)>>)>>]))

\* As verifyAcyclic, walking from the first key only.
verifyAcyclicFirstRoot(providerMap) ==
    AcyclicRoots(providerMap, SubSeq(SortedKeys(providerMap), 1, 1),
                 [stk |-> << >>, visited |-> {}, errs |-> << >>]).errs

\* verifyAcyclic(providerMap, hasher): the list of cycle errors.
verifyAcyclic(providerMap) ==
    AcyclicRoots(providerMap, SortedKeys(providerMap),
                 [stk |-> << >>, visited |-> {}, errs |-> << >>]).errs

----------------------------------------------------------------------------
(* processNewSet (parse.go): the set handed to later passes, or errors.    *)

MkSet(pos, varName, providers, bindings, values, imports) ==
    [Pos |-> pos, VarName |-> varName, Providers |-> providers, Bindings |-> bindings,
     Values |-> values, Imports |-> imports]

\* processNewSet after the loop over call.Args, which left the items that
\* were converted in d and the errors of the others in ec: return the
\* errors if there are any, else build the maps, then check that the graph
\* is acyclic.  set is nil (ok = FALSE) when errs is not empty.
processNewSet(d, ec, ord) ==
    LET b == buildProviderMap(d, ord)
        cyc == verifyAcyclic(b.providerMap)
    IN IF ec # << >> THEN [ok |-> FALSE, errs |-> ec, set |-> d]
       ELSE IF b.errs # << >> THEN [ok |-> FALSE, errs |-> b.errs, set |-> d]
       ELSE IF cyc # << >> THEN [ok |-> FALSE, errs |-> cyc, set |-> d]
       ELSE [ok |-> TRUE, errs |-> << >>,
             set |-> [Pos |-> d.Pos, VarName |-> d.VarName,
                      Providers |-> d.Providers, Bindings |-> d.Bindings,
                      Values |-> d.Values, Imports |-> d.Imports,
                      providerMap |-> b.providerMap, srcMap |-> b.srcMap]]

----------------------------------------------------------------------------
(* solve (analyze.go).                                                     *)

\* errAbort: the index value of a type that was visited but failed.
errAbort == -1

\* The absent type of a frame's from field (frame{t: out}).
NoType == 0

\* frame{t, from, up}; up is kept as the chain of types f.t for f = up,
\* up.up, ..., which is all solve reads from it.
Frame(t, from, up) == [t |-> t, from |-> from, up |-> up]

Child(curr, t) == Frame(t, curr.t, <<curr.t>> \o curr.up)

multipleInputsError(g) == [kind |-> "multiple inputs", typ |-> g]

inputConflictError(g, pv) ==
    IF IsProvider(pv)
    THEN [kind |-> "input conflicts with provider", typ |-> g, name |-> pv.p.Name]
    ELSE [kind |-> "input conflicts with value", typ |-> g, name |-> pv.v.Pos]

noProviderError(set, curr) ==
    [kind |-> "no provider found", typ |-> curr.t, output |-> curr.from = NoType,
     neededBy |-> IF curr.from = NoType THEN << >>
                  ELSE [i \in 1..Len(curr.up) |->
                          <<curr.up[i], description(set.srcMap[curr.up[i]])>>]]

\* The errors of "for i, g := range given { for _, h := range given[:i] ..."
RECURSIVE DupInputs(_, _, _, _)
DupInputs(given, i, j, errs) ==
    IF i > Len(given) THEN errs
    ELSE IF j >= i THEN DupInputs(given, i + 1, 1, errs)
    ELSE DupInputs(given, i, j + 1,
                   IF given[i] = given[j] THEN ecAdd(errs, multipleInputsError(given[i]))
                   ELSE errs)

\* The loop that fills index with the givens (0-based slots, as in the code).
RECURSIVE IndexInputs(_, _, _, _)
IndexInputs(set, given, i, st) ==
    IF i > Len(given) THEN st
    ELSE LET g == given[i]
             pv == For(set, g)
         IN IndexInputs(set, given, i + 1,
              IF ~IsNil(pv)
              THEN [st EXCEPT !.errs = ecAdd(@, inputConflictError(g, pv))]
              ELSE [st EXCEPT !.index = MapSet(@, g, i - 1)])

\* As solveBegin, returning the errors of the first loop when there are any.
solveBeginStopsAtDups(out, given, set) ==
    LET dups == DupInputs(given, 1, 1, << >>)
        st == IndexInputs(set, given, 1,
                [index |-> EmptyMap, stk |-> << >>, calls |-> << >>, used |-> << >>,
                 errs |-> dups, done |-> FALSE])
    IN IF dups # << >> THEN [st EXCEPT !.errs = dups, !.done = TRUE]
       ELSE IF st.errs # << >> THEN [st EXCEPT !.done = TRUE]
       ELSE [st EXCEPT !.stk = <<Frame(out, NoType, << >>)>>]

\* As solveBegin, starting the traversal from every type of the set as well.
solveBeginFromAllKeys(out, given, set) ==
    LET st == IndexInputs(set, given, 1,
                [index |-> EmptyMap, stk |-> << >>, calls |-> << >>, used |-> << >>,
                 errs |-> DupInputs(given, 1, 1, << >>), done |-> FALSE])
        keys == SortedKeys(set.providerMap)
    IN IF st.errs # << >> THEN [st EXCEPT !.done = TRUE]
       ELSE [st EXCEPT !.stk = Append([i \in 1..Len(keys) |-> Frame(keys[i], NoType, << >>)],
                                      Frame(out, NoType, << >>))]

\* solve up to "stk := []frame{{t: out}}".  done is TRUE once solve returned.
solveBegin(out, given, set) ==
    LET st == IndexInputs(set, given, 1,
                [index |-> EmptyMap, stk |-> << >>, calls |-> << >>, used |-> << >>,
                 errs |-> DupInputs(given, 1, 1, << >>), done |-> FALSE])
    IN IF st.errs # << >> THEN [st EXCEPT !.done = TRUE]
       ELSE [st EXCEPT !.stk = <<Frame(out, NoType, << >>)>>]

Call(kind, p, out, args, ins) ==
    [kind |-> kind, name |-> p.Name, out |-> out, args |-> args, ins |-> ins,
     hasCleanup |-> p.HasCleanup, hasErr |-> p.HasErr]

ValueCall(v, out) ==
    [kind |-> "valueExpr", name |-> v.Pos, out |-> out, args |-> << >>, ins |-> << >>,
     hasCleanup |-> FALSE, hasErr |-> FALSE]

\* As MissingArgs, taking every argument as not yet visited.
MissingArgsAll(index, args) == args

\* The arguments for which "index.At(a.Type) == nil", in declared order.
MissingArgs(index, args) == SelectSeq(args, LAMBDA a : a \notin DOMAIN index)

\* As Reverse, leaving the order as it is.
ReverseNot(s) == s

Reverse(s) == [i \in 1..Len(s) |-> s[Len(s) + 1 - i]]

PushArgsNoRevisit(stk, curr, missing) ==
    stk \o [i \in 1..Len(missing) |-> Child(curr, Reverse(missing)[i])]

\* The frames pushed for the arguments that have no index yet: the frame
\* itself first, then the missing arguments in reverse order.
PushArgs(stk, curr, missing) ==
    stk \o <<curr>> \o [i \in 1..Len(missing) |-> Child(curr, Reverse(missing)[i])]

ArgSlotsReversed(index, args) == [i \in 1..Len(args) |-> index[args[Len(args) + 1 - i]]]

\* args[i] = index.At(p.Args[i].Type)
ArgSlots(index, args) == [i \in 1..Len(args) |-> index[args[i]]]

NextSlotOffByOne(given, calls) == Len(given) + Len(calls) + 1

\* len(given) + len(calls): the slot of the call appended next.
NextSlot(given, calls) == Len(given) + Len(calls)

\* As VisitProvider, emitting the call whatever the slots of the arguments.
VisitProviderIgnoresErrors(st, curr, p, given) ==
    LET missing == MissingArgs(st.index, p.Args)
        args == ArgSlots(st.index, p.Args)
    IN IF missing # << >>
       THEN [st EXCEPT !.stk = PushArgs(@, curr, missing)]
       ELSE [st EXCEPT !.index = MapSet(@, curr.t, NextSlot(given, st.calls)),
                       !.calls = Append(@, Call(IF p.IsStruct THEN "structProvider"
                                                ELSE "funcProviderCall",
                                                p, curr.t, args, p.Args))]

\* "case pv.IsProvider()" once the binding case is excluded.
VisitProvider(st, curr, p, given) ==
    LET missing == MissingArgs(st.index, p.Args)
        args == ArgSlots(st.index, p.Args)
    IN IF missing # << >>
       THEN [st EXCEPT !.stk = PushArgs(@, curr, missing)]
       ELSE IF \E i \in 1..Len(args) : args[i] = errAbort
       THEN [st EXCEPT !.index = MapSet(@, curr.t, errAbort)]
       ELSE [st EXCEPT !.index = MapSet(@, curr.t, NextSlot(given, st.calls)),
                       !.calls = Append(@, Call(IF p.IsStruct THEN "structProvider"
                                                ELSE "funcProviderCall",
                                                p, curr.t, args, p.Args))]

\* "Interface binding.  Don't create a call ourselves."
VisitBinding(st, curr, concrete) ==
    IF concrete \notin DOMAIN st.index
    THEN [st EXCEPT !.stk = @ \o <<curr, Child(curr, concrete)>>]
    ELSE [st EXCEPT !.index = MapSet(@, curr.t, st.index[concrete])]

VisitedNever(index, t) == FALSE

\* index.At(curr.t) != nil
Visited(index, t) == t \in DOMAIN index

IsBindingNever(concrete, t) == FALSE

\* !types.Identical(concrete, curr.t): the key is an interface bound to concrete.
IsBinding(concrete, t) == concrete # t

\* One iteration of the dfs loop.
solveStep(st, given, set) ==
    LET curr == st.stk[Len(st.stk)]
        popped == [st EXCEPT !.stk = SubSeq(@, 1, Len(@) - 1)]
        pv == For(set, curr.t)
    IN IF Visited(st.index, curr.t) THEN popped
       ELSE IF IsNil(pv)
       THEN [popped EXCEPT !.errs = ecAdd(@, noProviderError(set, curr)),
                           !.index = MapSet(@, curr.t, errAbort)]
       ELSE IF IsProvider(pv)
       THEN LET u == [popped EXCEPT !.used = Append(@, set.srcMap[curr.t])]
            IN IF IsBinding(ConcreteType(pv), curr.t)
               THEN VisitBinding(u, curr, ConcreteType(pv))
               ELSE VisitProvider(u, curr, pv.p, given)
       ELSE IF IsBinding(pv.v.Out, curr.t)
       THEN VisitBinding(popped, curr, pv.v.Out)
       ELSE [popped EXCEPT !.used = Append(@, set.srcMap[curr.t]),
                           !.index = MapSet(@, curr.t, NextSlot(given, st.calls)),
                           !.calls = Append(@, ValueCall(pv.v, curr.t))]

\* u.X == m for a member m of kind k
UsedHas(used, k, m) == \E i \in 1..Len(used) : used[i].kind = k /\ used[i][k] = m

unusedError(k, m) ==
    [kind |-> "unused", what |-> k,
     name |-> CASE k = "Import" -> m.VarName
                [] k = "Provider" -> m.Name
                [] k = "Value" -> m.Out
                [] k = "Binding" -> m.Iface]

UnusedIn(list, k, used) ==
    LET miss == SelectSeq(list, LAMBDA m : ~UsedHas(used, k, m))
    IN [i \in 1..Len(miss) |-> unusedError(k, miss[i])]

\* verifyArgsUsed(set, used)
verifyArgsUsed(set, used) ==
    UnusedIn(set.Imports, "Import", used) \o UnusedIn(set.Providers, "Provider", used)
      \o UnusedIn(set.Values, "Value", used) \o UnusedIn(set.Bindings, "Binding", used)

\* The return statements of solve after the dfs loop: (calls, nil) or (nil, errs).
solveEnd(st, set) ==
    LET unused == verifyArgsUsed(set, st.used)
    IN IF st.errs # << >> THEN [calls |-> << >>, errs |-> st.errs]
       ELSE IF unused # << >> THEN [calls |-> << >>, errs |-> unused]
       ELSE [calls |-> st.calls, errs |-> << >>]

RECURSIVE solveLoop(_, _, _)
solveLoop(st, given, set) ==
    IF st.stk = << >> THEN st ELSE solveLoop(solveStep(st, given, set), given, set)

\* solve(fset, out, given, set)
solve(out, given, set) ==
    LET st == solveBegin(out, given, set)
    IN IF st.done THEN [calls |-> << >>, errs |-> st.errs]
       ELSE solveEnd(solveLoop(st, given, set), set)

----------------------------------------------------------------------------
(* Identifiers of the generated code (wire.go): sequences of characters.   *)

Digits == <<"0", "1", "2", "3", "4", "5", "6", "7", "8", "9">>

\* strconv.AppendInt(buf, n, 10) for n >= 0
RECURSIVE AppendInt(_, _)
AppendInt(buf, n) ==
    IF n < 10 THEN Append(buf, Digits[n + 1])
    ELSE Append(AppendInt(buf, n \div 10), Digits[(n % 10) + 1])

\* buf[len(buf)-1] >= '0' && buf[len(buf)-1] <= '9'
EndsInDigit(name) == Len(name) > 0 /\ name[Len(name)] \in Range(Digits)

\* "for n := 2; ; n++" of disambiguate; taken is the set of names that collide.
RECURSIVE disambiguateFrom(_, _, _)
disambiguateFrom(buf, n, taken) ==
    IF AppendInt(buf, n) \notin taken THEN AppendInt(buf, n)
    ELSE disambiguateFrom(buf, n + 1, taken)

\* disambiguate(name, collides), collides(x) being x \in taken.
disambiguate(name, taken) ==
    IF name \notin taken THEN name
    ELSE disambiguateFrom(IF EndsInDigit(name) THEN Append(name, "_") ELSE name, 2, taken)

\* "err" and "cleanup", the names funcProviderCall asks for.
errIdent == <<"e", "r", "r">>
cleanupIdent == <<"c", "l", "e", "a", "n", "u", "p">>

\* The types of the model are unnamed (typeVariableName returns ""): a local
\* is asked for as "v", a parameter as "arg", and the variable of a value
\* expression as "_wire" + "" + "Value".
vIdent == <<"v">>
argIdent == <<"a", "r", "g">>
valueIdent == <<"_", "w", "i", "r", "e", "V", "a", "l", "u", "e">>

----------------------------------------------------------------------------
(* gen.inject and injectPass (wire.go).                                    *)

\* gen.nameInFileScope: the names of the value variables emitted so far and
\* the names the package scope (or an import) already holds.
FileScopeNames(g) == {g.values[k] : k \in DOMAIN g.values} \cup g.scope

\* injectorGen.nameInInjector
InjectorNames(ig) ==
    {ig.errVar} \cup Range(ig.paramNames) \cup Range(ig.localNames)
      \cup Range(ig.cleanupNames) \cup FileScopeNames(ig.g)

cleanupMismatch(c) == [kind |-> "provider returns cleanup", typ |-> c.out]
errMismatch(c) == [kind |-> "provider returns error", typ |-> c.out]

MissesErrNever(c, in) == FALSE

\* c.hasErr && !injectSig.err
MissesErr(c, in) == c.hasErr /\ ~in.err

\* c.hasCleanup && !injectSig.cleanup
MissesCleanup(c, in) == c.hasCleanup /\ ~in.cleanup

\* The body of "for i := range calls" in gen.inject, for the call c.
CheckCall(st, c, in) ==
    IF MissesCleanup(c, in) THEN [st EXCEPT !.errs = <<cleanupMismatch(c)>>]
    ELSE IF MissesErr(c, in) THEN [st EXCEPT !.errs = <<errMismatch(c)>>]
    ELSE IF c.kind = "valueExpr" /\ c.name \notin DOMAIN st.g.values
    THEN LET name == disambiguate(valueIdent, FileScopeNames(st.g))
         IN [st EXCEPT !.g.values = MapSet(@, c.name, name),
                       !.pendingVars = Append(@, name)]
    ELSE st

\* The loop; it returns at the first call that sets an error.
RECURSIVE CheckCalls(_, _, _, _)
CheckCalls(st, calls, i, in) ==
    IF i > Len(calls) \/ st.errs # << >> THEN st
    ELSE CheckCalls(CheckCall(st, calls[i], in), calls, i + 1, in)

\* &injectorGen{g: g, errVar: errVar}; body is the text written by ig.p,
\* one record per statement.
NewInjectorGen(g, errVar) ==
    [g |-> g, paramNames |-> << >>, localNames |-> << >>, cleanupNames |-> << >>,
     errVar |-> errVar, body |-> << >>]

\* ig.paramNames[a] or ig.localNames[a-len(ig.paramNames)]
ArgName(ig, a) ==
    IF a < Len(ig.paramNames) THEN ig.paramNames[a + 1]
    ELSE ig.localNames[a - Len(ig.paramNames) + 1]

ArgNames(ig, args) == [i \in 1..Len(args) |-> ArgName(ig, args[i])]

\* "for i := prevCleanup - 1; i >= 0; i--": the cleanups the error branch calls.
ErrCleanups(cleanupNames, prevCleanup) ==
    [i \in 1..prevCleanup |-> cleanupNames[prevCleanup + 1 - i]]

\* injectorGen.funcProviderCall.  The statement assigns lname, the cleanup
\* name (if any) and the error variable (if any); onErr is the "if" that
\* follows it: the variable tested, the cleanups called, and the returned
\* zero value, nil cleanup and error identifier.
funcProviderCall(ig, lname, c, in) ==
    LET prevCleanup == Len(ig.cleanupNames)
        cname == disambiguate(cleanupIdent, InjectorNames(ig))
        ig1 == IF c.hasCleanup THEN [ig EXCEPT !.cleanupNames = Append(@, cname)] ELSE ig
        onErr == [test |-> ig.errVar,
                  cleanups |-> ErrCleanups(ig1.cleanupNames, prevCleanup),
                  zero |-> in.out,
                  nilCleanup |-> in.cleanup,
                  err |-> errIdent]
    IN [ig1 EXCEPT !.body =
          Append(@, [kind |-> "funcProviderCall", lname |-> lname,
                     cname |-> IF c.hasCleanup THEN <<cname>> ELSE << >>,
                     errName |-> IF c.hasErr THEN <<ig.errVar>> ELSE << >>,
                     fn |-> c.name, args |-> ArgNames(ig1, c.args),
                     onErr |-> IF c.hasErr THEN <<onErr>> ELSE << >>])]

\* injectorGen.structProviderCall
structProviderCall(ig, lname, c) ==
    [ig EXCEPT !.body = Append(@, [kind |-> "structProvider", lname |-> lname,
                                   fn |-> c.name, args |-> ArgNames(ig, c.args)])]

\* injectorGen.valueExpr
valueExpr(ig, lname, c) ==
    [ig EXCEPT !.body = Append(@, [kind |-> "valueExpr", lname |-> lname,
                                   value |-> ig.g.values[c.name]])]

\* The loop over params of injectPass.
RECURSIVE PassParams(_, _, _)
PassParams(ig, given, i) ==
    IF i > Len(given) THEN ig
    ELSE PassParams([ig EXCEPT !.paramNames =
                       Append(@, disambiguate(argIdent, InjectorNames(ig)))],
                    given, i + 1)

\* The loop over calls of injectPass.
RECURSIVE PassCalls(_, _, _, _)
PassCalls(ig, calls, i, in) ==
    IF i > Len(calls) THEN ig
    ELSE LET c == calls[i]
             lname == disambiguate(vIdent, InjectorNames(ig))
             ig1 == [ig EXCEPT !.localNames = Append(@, lname)]
         IN PassCalls(CASE c.kind = "structProvider" -> structProviderCall(ig1, lname, c)
                        [] c.kind = "funcProviderCall" -> funcProviderCall(ig1, lname, c, in)
                        [] c.kind = "valueExpr" -> valueExpr(ig1, lname, c),
                      calls, i + 1, in)

\* The name after "return": the first parameter of the output type when
\* there is no call, else the last local.
ReturnName(ig, in, calls) ==
    IF calls = << >>
    THEN LET is == {i \in 1..Len(in.given) : in.given[i] = in.out}
         IN IF is = {} THEN << >>
            ELSE ig.paramNames[CHOOSE i \in is : \A j \in is : i <= j]
    ELSE ig.localNames[Len(calls)]

ClosureCleanupsForward(cleanupNames) == cleanupNames

\* "for i := len(ig.cleanupNames) - 1; i >= 0; i--": the body of the
\* returned cleanup closure.
ClosureCleanups(cleanupNames) == Reverse(cleanupNames)

\* injectPass: the emitted function.
injectPass(in, calls, ig0) ==
    LET ig == PassCalls(PassParams(ig0, in.given, 1), calls, 1, in)
    IN [params |-> ig.paramNames, body |-> ig.body,
        ret |-> [value |-> ReturnName(ig, in, calls),
                 cleanup |-> IF in.cleanup THEN <<ClosureCleanups(ig.cleanupNames)>>
                             ELSE << >>,
                 err |-> IF in.err THEN <<"nil">> ELSE << >>]]

\* gen.inject(name, sig, set) in a file whose scope holds the names of
\* in.scope: the errors it returns, or the code it emits (the discarded
\* first pass writes nothing) with the variables it declares for values.
inject(in, set) ==
    LET r == solve(in.out, in.given, set)
        st == CheckCalls([g |-> [values |-> EmptyMap, scope |-> in.scope],
                          pendingVars |-> << >>, errs |-> << >>], r.calls, 1, in)
    IN IF r.errs # << >> THEN [errs |-> r.errs]
       ELSE IF st.errs # << >> THEN [errs |-> st.errs]
       ELSE [errs |-> << >>,
             fn |-> injectPass(in, r.calls,
                               NewInjectorGen(st.g, disambiguate(errIdent,
                                                                 FileScopeNames(st.g)))),
             vars |-> st.pendingVars]

----------------------------------------------------------------------------
(* Inputs: the declarations wire.Build / wire.NewSet are called with.      *)

Idx(n) == [i \in 1..n |-> i]

ArgSeqs(S) == {a \in SeqsUpTo(S, MaxArgs) : NoDup(a)}

\* What a set declares for type t.  The types are numbered so that a member
\* for t refers only to types below t (any acyclic set can be so numbered).
\* A struct provider for t has the two outputs t and PointerTo(t).
Opt(t) ==
    {[kind |-> "none", args |-> << >>, to |-> 0], [kind |-> "value", args |-> << >>, to |-> 0]}
      \cup {[kind |-> "provider", args |-> a, to |-> 0] : a \in ArgSeqs(1..(t - 1))}
      \cup {[kind |-> "struct", args |-> a, to |-> 0] : a \in ArgSeqs(1..(t - 1))}
      \cup {[kind |-> "binding", args |-> << >>, to |-> j] : j \in 1..(t - 1)}

RECURSIVE Shapes(_)
Shapes(n) == IF n = 0 THEN {<< >>} ELSE {Append(s, o) : s \in Shapes(n - 1), o \in Opt(n)}

Of(shape, k) == SelectSeq(Idx(Len(shape)), LAMBDA t : shape[t].kind = k)

\* The type that stands for types.NewPointer(t) in the declared sets: the
\* next type, or the first one after the last (a struct whose fields need
\* its own pointer type is then among the inputs).
PointerTo(t) == (t % NumTypes) + 1

\* The set declared by a shape: members in the order of their types.
\* flags[t] = <<HasCleanup, HasErr>> of the provider of t.
DeclOf(shape, flags) ==
    LET ps == SelectSeq(Idx(Len(shape)), LAMBDA t : shape[t].kind \in {"provider", "struct"})
        vs == Of(shape, "value")
        bs == Of(shape, "binding")
    IN MkSet(0, 0,
             [i \in 1..Len(ps) |->
                IF shape[ps[i]].kind = "struct"
                THEN MkProvider(ps[i], shape[ps[i]].args, <<ps[i], PointerTo(ps[i])>>, TRUE,
                                FALSE, FALSE)
                ELSE MkProvider(ps[i], shape[ps[i]].args, <<ps[i]>>, FALSE,
                                flags[ps[i]][1], flags[ps[i]][2])],
             [i \in 1..Len(bs) |-> MkBinding(bs[i], bs[i], shape[bs[i]].to)],
             [i \in 1..Len(vs) |-> MkValue(vs[i], vs[i])],
             << >>)

\* The parameter lists of an injector over a set of that shape: distinct
\* types the set does not provide.
Givens(shape) ==
    {g \in SeqsUpTo(Range(Of(shape, "none")), MaxGiven) : NoDup(g)}

\* The orders in which the keys of the imported maps can be visited: every
\* Iterate call is a range over a Go map of its own, so that each import of
\* d has an order of its own, whether or not it is the same set as another.
IterOrders(d) ==
    LET RECURSIVE From(_)
        From(i) ==
            IF i > Len(d.Imports) THEN {<< >>}
            ELSE {<<o>> \o rest : o \in Perms(DOMAIN d.Imports[i].providerMap),
                                  rest \in From(i + 1)}
    IN From(1)

NoFlags == [t \in Types |-> <<FALSE, FALSE>>]

Injector(out, given, cleanup, err, scope) ==
    [out |-> out, given |-> given, cleanup |-> cleanup, err |-> err, scope |-> scope]

None == [kind |-> "none"]

----------------------------------------------------------------------------
(* The solver run for one injector, as Load drives it (parse.go).          *)

InitSolve ==
    /\ phase = "build"
    /\ cache = << >>
    /\ buildErrs = << >>
    /\ \E shape \in Shapes(NumTypes), out \in Types :
         \E given \in Givens(shape) :
           /\ decl = DeclOf(shape, NoFlags)
           /\ inj = Injector(out, given, FALSE, FALSE, {})
    /\ pset = None
    /\ sv = None
    /\ result = None
    /\ code = None
    /\ run = None
    /\ heap = << >>

\* pset, errs := oc.processNewSet(pkgInfo, buildCall, ""), from the end of
\* its loop over call.Args: buildErrs holds the errors the loop collected.
BuildSet ==
    /\ phase = "build"
    /\ \E ord \in IterOrders(decl) :
         LET r == processNewSet(decl, buildErrs, ord)
         IN IF r.ok
            THEN /\ pset' = r.set
                 /\ phase' = "solve"
                 /\ UNCHANGED buildErrs
            ELSE /\ buildErrs' = r.errs
                 /\ phase' = IF buildErrs # << >> THEN "args failed" ELSE "failed"
                 /\ UNCHANGED pset
    /\ UNCHANGED <<cache, decl, inj, sv, result, code, run, heap>>

\* solve up to the dfs loop: the checks of the givens.
SolveBegin ==
    /\ phase = "solve"
    /\ sv' = solveBegin(inj.out, inj.given, pset)
    /\ phase' = IF sv'.done THEN "solved" ELSE "dfs"
    /\ result' = IF sv'.done THEN [calls |-> << >>, errs |-> sv'.errs] ELSE result
    /\ UNCHANGED <<cache, buildErrs, decl, inj, pset, code, run, heap>>

\* One iteration of the dfs loop.
SolveStep ==
    /\ phase = "dfs"
    /\ sv.stk # << >>
    /\ sv' = solveStep(sv, inj.given, pset)
    /\ UNCHANGED <<phase, cache, buildErrs, decl, inj, pset, result, code, run, heap>>

\* The loop has ended: verifyArgsUsed and the return.
SolveEnd ==
    /\ phase = "dfs"
    /\ sv.stk = << >>
    /\ result' = solveEnd(sv, pset)
    /\ sv' = [sv EXCEPT !.done = TRUE]
    /\ phase' = "solved"
    /\ UNCHANGED <<cache, buildErrs, decl, inj, pset, code, run, heap>>

NextSolve == BuildSet \/ SolveBegin \/ SolveStep \/ SolveEnd

Spec == InitSolve /\ [][NextSolve]_vars

----------------------------------------------------------------------------
(* The same run over sets whose providers may ask for any type, so that    *)
(* the declared graph can hold any cycles.                                 *)

\* Sequences of distinct types in ascending order, as parameter lists.
AscendingArgs == {a \in ArgSeqs(Types) : \A i \in 1..(Len(a) - 1) : a[i] < a[i + 1]}

\* What a set declares for type t: nothing, a function provider that takes
\* any types, or a binding of t as an interface to the next type.
GraphOpt(t) ==
    {[kind |-> "none", args |-> << >>, to |-> 0]}
      \cup {[kind |-> "provider", args |-> a, to |-> 0] : a \in AscendingArgs}
      \cup {[kind |-> "binding", args |-> << >>, to |-> (t % NumTypes) + 1]}

RECURSIVE GraphShapes(_)
GraphShapes(n) ==
    IF n = 0 THEN {<< >>} ELSE {Append(s, o) : s \in GraphShapes(n - 1), o \in GraphOpt(n)}

\* An injector without parameters that asks for the first type.
InitGraph ==
    /\ phase = "build"
    /\ cache = << >>
    /\ buildErrs = << >>
    /\ \E shape \in GraphShapes(NumTypes) : decl = DeclOf(shape, NoFlags)
    /\ inj = Injector(1, << >>, FALSE, FALSE, {})
    /\ pset = None
    /\ sv = None
    /\ result = None
    /\ code = None
    /\ run = None
    /\ heap = << >>

SpecGraph == InitGraph /\ [][NextSolve]_vars

----------------------------------------------------------------------------
(* The same run for injectors with any parameter lists: parameters may     *)
(* repeat a type and may have types the set provides.                      *)

\* What a set declares for type t: nothing, a value, a provider without
\* parameters, or a binding of t as an interface to the type below.
InputOpt(t) ==
    {[kind |-> "none", args |-> << >>, to |-> 0],
     [kind |-> "value", args |-> << >>, to |-> 0],
     [kind |-> "provider", args |-> << >>, to |-> 0]}
      \cup {[kind |-> "binding", args |-> << >>, to |-> j] : j \in {t - 1} \cap Types}

RECURSIVE InputShapes(_)
InputShapes(n) ==
    IF n = 0 THEN {<< >>} ELSE {Append(s, o) : s \in InputShapes(n - 1), o \in InputOpt(n)}

InitInputs ==
    /\ phase = "build"
    /\ cache = << >>
    /\ buildErrs = << >>
    /\ \E shape \in InputShapes(NumTypes), out \in Types :
         \E given \in SeqsUpTo(Types, MaxInputs) :
           /\ decl = DeclOf(shape, NoFlags)
           /\ inj = Injector(out, given, FALSE, FALSE, {})
    /\ pset = None
    /\ sv = None
    /\ result = None
    /\ code = None
    /\ run = None
    /\ heap = << >>

SpecInputs == InitInputs /\ [][NextSolve]_vars

----------------------------------------------------------------------------
(* The same run with a count, for every type, of the iterations that push  *)
(* its frame back under the frames of what it needs.                       *)

\* The counts stop at MaxPushes.
MaxPushes == 2

InitDrain ==
    /\ phase = "build"
    /\ cache = << >>
    /\ buildErrs = << >>
    /\ \E shape \in Shapes(NumTypes), out \in Types :
         \E given \in Givens(shape) :
           /\ decl = DeclOf(shape, NoFlags)
           /\ inj = Injector(out, given, FALSE, FALSE, {})
    /\ pset = None
    /\ sv = None
    /\ result = None
    /\ code = None
    /\ run = [pushes |-> [t \in Types |-> 0]]
    /\ heap = << >>

\* One iteration of the dfs loop; it pushed the frame back when the stack
\* has grown.
DrainStep ==
    /\ phase = "dfs"
    /\ sv.stk # << >>
    /\ sv' = solveStep(sv, inj.given, pset)
    /\ run' = IF Len(sv'.stk) > Len(sv.stk) /\ run.pushes[sv.stk[Len(sv.stk)].t] < MaxPushes
              THEN [run EXCEPT !.pushes[sv.stk[Len(sv.stk)].t] = @ + 1]
              ELSE run
    /\ UNCHANGED <<phase, cache, buildErrs, decl, inj, pset, result, code, heap>>

NextDrain == BuildSet \/ SolveBegin \/ DrainStep \/ SolveEnd

\* solve is a sequential loop: once it is called, the step it can take is
\* taken.
SpecDrain == InitDrain /\ [][NextDrain]_vars /\ WF_vars(SolveBegin \/ DrainStep \/ SolveEnd)

----------------------------------------------------------------------------
(* A set that imports two sets declared elsewhere.                         *)

\* The set variable number n: one provider without parameters for each
\* type of S, as processNewSet has built it.
ImportedSet(n, S) ==
    LET ts == SelectSeq(Idx(NumTypes), LAMBDA t : t \in S)
    IN processNewSet(MkSet(n, n, [i \in 1..Len(ts) |->
                                    MkProvider(10 * n + ts[i], << >>, <<ts[i]>>,
                                               FALSE, FALSE, FALSE)],
                           << >>, << >>, << >>),
                     << >>, << >>).set

\* wire.NewSet(set1, set2) or wire.NewSet(set1, set2, provider of type t).
InitImports ==
    /\ phase = "build"
    /\ cache = << >>
    /\ buildErrs = << >>
    /\ \E S1, S2 \in SUBSET Types \ {{}} :
         \E own \in {<< >>} \cup {<<MkProvider(t, << >>, <<t>>, FALSE, FALSE, FALSE)>> : t \in Types} :
           decl = MkSet(0, 0, own, << >>, << >>, <<ImportedSet(1, S1), ImportedSet(2, S2)>>)
    /\ inj = None
    /\ pset = None
    /\ sv = None
    /\ result = None
    /\ code = None
    /\ run = None
    /\ heap = << >>

SpecImports == InitImports /\ [][BuildSet]_vars

----------------------------------------------------------------------------
(* Provider sets declared as package variables: objectCache.get on a       *)
(* variable whose initializer is a wire.NewSet call (parse.go).            *)

\* What processExpr returns for one argument of wire.NewSet.
Item(kind, val) == [kind |-> kind, val |-> val]

\* The providers, values and bindings the package declares: a provider
\* and a value of type 1, a provider of type 2, type 1 bound as an
\* interface to type 2 and type 3 bound as an interface to type 1.  Names
\* and positions tell the members apart.
Catalogue ==
    {Item("Provider", MkProvider(1, << >>, <<1>>, FALSE, FALSE, FALSE)),
     Item("Provider", MkProvider(3, << >>, <<2>>, FALSE, FALSE, FALSE)),
     Item("Value", MkValue(4, 1)),
     Item("IfaceBinding", MkBinding(6, 1, 2)),
     Item("IfaceBinding", MkBinding(7, 3, 1))}

\* The arguments a wire.NewSet call can name: a declared member or a set
\* variable that oc.get was called for before; oc.get returns what the
\* cache holds for it, the *ProviderSet or nil with the errors of its
\* construction.
ItemChoices(c) ==
    Catalogue \cup {IF c[j].errs # << >> THEN Item("errors", c[j].errs)
                    ELSE Item("ProviderSet", c[j].val) : j \in 1..Len(c)}

\* The items of one kind, in argument order.
ItemsOf(items, kind) ==
    LET s == SelectSeq(items, LAMBDA it : it.kind = kind)
    IN [i \in 1..Len(s) |-> s[i].val]

\* The loop over call.Args of processNewSet: each item is appended to the
\* list of its kind.
NewSetOf(pos, varName, items) ==
    MkSet(pos, varName, ItemsOf(items, "Provider"), ItemsOf(items, "IfaceBinding"),
          ItemsOf(items, "Value"), ItemsOf(items, "ProviderSet"))

\* The loop over call.Args of processNewSet: the errors of the arguments
\* that were not converted, in argument order (ec.add(errs...); continue).
RECURSIVE ArgErrors(_)
ArgErrors(items) ==
    IF items = << >> THEN << >>
    ELSE (IF Head(items).kind = "errors" THEN Head(items).val ELSE << >>)
           \o ArgErrors(Tail(items))

\* run.named counts the arguments the set variables built so far name, all
\* together.
InitBuild ==
    /\ phase = "sets"
    /\ cache = << >>
    /\ buildErrs = << >>
    /\ decl = None
    /\ inj = None
    /\ pset = None
    /\ sv = None
    /\ result = None
    /\ code = None
    /\ run = [named |-> 0]
    /\ heap = << >>

\* The deferred oc.objects[ref] = objCacheEntry{val: val, errs: errs} of
\* oc.get, for a variable under a new ref.
CachePut(c, val, errs) == Append(c, [val |-> val, errs |-> errs])

\* oc.get(obj) for a set variable not yet in the cache: processNewSet on its
\* wire.NewSet call, in a package of at most maxSets set variables that name
\* maxItems arguments all together.  The variable is named by its place in
\* the cache.  What get returns is cached, be it the set or nil (None) and the
\* errors, and Load goes on with the next variable in either case; phase
\* tells where processNewSet returned: "args failed" after the loop over
\* the arguments, "failed" after buildProviderMap or verifyAcyclic, "sets"
\* at its end.
NewSetWithin(maxSets, maxItems) ==
    /\ phase \in {"sets", "failed", "args failed"}
    /\ inj = None
    /\ Len(cache) < maxSets
    /\ \E items \in SeqsUpTo(ItemChoices(cache), maxItems - run.named) :
         LET d == NewSetOf(Len(cache) + 1, Len(cache) + 1, items)
             ec == ArgErrors(items)
         IN /\ decl' = d
            /\ run' = [named |-> run.named + Len(items)]
            /\ \E ord \in IterOrders(d) :
                 LET r == processNewSet(d, ec, ord)
                 IN /\ buildErrs' = r.errs
                    /\ cache' = CachePut(cache, IF r.ok THEN r.set ELSE None, r.errs)
                    /\ phase' = IF r.ok THEN "sets"
                                ELSE IF ec # << >> THEN "args failed" ELSE "failed"
    /\ UNCHANGED <<inj, pset, sv, result, code, heap>>

NewSet == NewSetWithin(MaxSets, MaxItems)

NextBuild == NewSet

SpecBuild == InitBuild /\ [][NextBuild]_vars

----------------------------------------------------------------------------
(* Load (parse.go) over a package that declares set variables and          *)
(* injectors, with the sets and their maps as objects that are passed by   *)
(* pointer: heap holds the objects, an address is a place in heap and 0 is *)
(* nil.  A set object holds the addresses of its imports and of its two    *)
(* maps; the cache holds the address of each set.  Objects no pointer      *)
(* leads to any more are dropped from heap, as the collector may do.       *)

\* The members the set variables and the injector name all together, and
\* the number of set variables.
LoadItems == MaxItems - 1
LoadSets == MaxSets - 1

\* The set at address a as the passes read it through the pointer: the
\* member lists, the imported sets and the tables of the two maps (none
\* before buildProviderMap has returned them).
RECURSIVE Deref(_, _)
Deref(h, a) ==
    LET o == h[a]
        d == MkSet(o.Pos, o.VarName, o.Providers, o.Bindings, o.Values,
                   [i \in 1..Len(o.Imports) |-> Deref(h, o.Imports[i])])
    IN IF o.providerMap = 0 THEN d
       ELSE [Pos |-> d.Pos, VarName |-> d.VarName, Providers |-> d.Providers,
             Bindings |-> d.Bindings, Values |-> d.Values, Imports |-> d.Imports,
             providerMap |-> h[o.providerMap].table, srcMap |-> h[o.srcMap].table]

\* As NewMaps, taking the maps of the first import, when there is one, as
\* the maps to fill.
NewMapsOfFirstImport(h, a) ==
    IF h[a].Imports = << >>
    THEN [heap |-> h \o <<[table |-> EmptyMap], [table |-> EmptyMap]>>,
          providerMap |-> Len(h) + 1, srcMap |-> Len(h) + 2]
    ELSE [heap |-> h, providerMap |-> h[h[a].Imports[1]].providerMap,
          srcMap |-> h[h[a].Imports[1]].srcMap]

\* providerMap := new(typeutil.Map); srcMap := new(typeutil.Map), in the
\* call of buildProviderMap for the set at address a: the heap with the two
\* new maps and their addresses.
NewMaps(h, a) ==
    [heap |-> h \o <<[table |-> EmptyMap], [table |-> EmptyMap]>>,
     providerMap |-> Len(h) + 1, srcMap |-> Len(h) + 2]

\* oc.processNewSet on the heap h: pset := &ProviderSet{...} is a new
\* object, the loop over call.Args appends the items that were converted to
\* its lists (an imported set by its address), buildProviderMap writes to
\* the two maps it has made (providerMap.Set, srcMap.Set), and the maps are
\* assigned to the fields of pset.  val is the address of the set, or nil
\* with the errors; heap is then as before, for nothing leads to the
\* objects that were made.
ocProcessNewSet(h, pos, varName, items, ord) ==
    LET a == Len(h) + 1
        h1 == Append(h, [Pos |-> pos, VarName |-> varName,
                         Providers |-> ItemsOf(items, "Provider"),
                         Bindings |-> ItemsOf(items, "IfaceBinding"),
                         Values |-> ItemsOf(items, "Value"),
                         Imports |-> ItemsOf(items, "ProviderSet"),
                         providerMap |-> 0, srcMap |-> 0])
        r == processNewSet(Deref(h1, a), ArgErrors(items), ord)
        m == NewMaps(h1, a)
    IN IF ~r.ok THEN [heap |-> h, val |-> 0, errs |-> r.errs]
       ELSE [heap |-> [m.heap EXCEPT ![m.providerMap] = [table |-> r.set.providerMap],
                                     ![m.srcMap] = [table |-> r.set.srcMap],
                                     ![a].providerMap = m.providerMap,
                                     ![a].srcMap = m.srcMap],
             val |-> a, errs |-> << >>]

\* The orders in which buildProviderMap can iterate the maps of the sets
\* that items import.
ImportOrders(h, items) ==
    IterOrders(MkSet(0, 0, << >>, << >>, << >>,
                     [i \in 1..Len(ItemsOf(items, "ProviderSet")) |->
                        Deref(h, ItemsOf(items, "ProviderSet")[i])]))

\* oc.get(obj) for a set variable not yet in the cache, from the loop of
\* Load over the names of the package scope: what get returns is cached,
\* the address of the set or nil with the errors; phase is "failed" when
\* Load has errors to note.
LoadSet ==
    /\ phase = "sets"
    /\ Len(cache) < LoadSets
    /\ \E items \in SeqsUpTo(ItemChoices(cache), LoadItems - run.named) :
         \E ord \in ImportOrders(heap, items) :
           LET r == ocProcessNewSet(heap, Len(cache) + 1, Len(cache) + 1, items, ord)
           IN /\ heap' = r.heap
              /\ cache' = CachePut(cache, r.val, r.errs)
              /\ buildErrs' = r.errs
              /\ phase' = IF r.val = 0 THEN "failed" ELSE "sets"
              /\ run' = [named |-> run.named + Len(items)]
    /\ UNCHANGED <<decl, inj, pset, sv, result, code>>

\* The next injector of the package: its wire.Build call names declared
\* members and set variables, its signature gives out and given (at most
\* one parameter, of the last type).  processNewSet builds the set of the
\* call; phase is "failed" when Load has errors to note.
LoadInjector ==
    /\ phase = "sets"
    /\ \E items \in SeqsUpTo(ItemChoices(cache), LoadItems - run.named) \ {<< >>} :
         \E ord \in ImportOrders(heap, items) :
           LET r == ocProcessNewSet(heap, 0, 0, items, ord)
           IN /\ heap' = r.heap
              /\ buildErrs' = r.errs
              /\ IF r.val = 0
                 THEN phase' = "failed" /\ UNCHANGED <<inj, pset>>
                 ELSE /\ phase' = "solve"
                      /\ pset' = r.val
                      /\ \E out \in Types, given \in {<< >>, <<NumTypes>>} :
                           inj' = Injector(out, given, FALSE, FALSE, {})
    /\ UNCHANGED <<cache, decl, sv, result, code, run>>

\* solve up to the dfs loop; index := new(typeutil.Map) is a new object, sv
\* holds its address.
LoadSolveBegin ==
    /\ phase = "solve"
    /\ LET st == solveBegin(inj.out, inj.given, Deref(heap, pset))
       IN /\ heap' = Append(heap, [table |-> st.index])
          /\ sv' = [st EXCEPT !.index = Len(heap) + 1]
          /\ phase' = IF st.done THEN "solved" ELSE "dfs"
          /\ result' = IF st.done THEN [calls |-> << >>, errs |-> st.errs] ELSE result
    /\ UNCHANGED <<cache, buildErrs, decl, inj, pset, code, run>>

\* One iteration of the dfs loop: it reads the set through the pointer and
\* writes to index (index.Set) and to its slices.
LoadSolveStep ==
    /\ phase = "dfs"
    /\ sv.stk # << >>
    /\ LET st == solveStep([sv EXCEPT !.index = heap[sv.index].table], inj.given,
                           Deref(heap, pset))
       IN /\ heap' = [heap EXCEPT ![sv.index] = [table |-> st.index]]
          /\ sv' = [st EXCEPT !.index = sv.index]
    /\ UNCHANGED <<phase, cache, buildErrs, decl, inj, pset, result, code, run>>

\* The loop has ended: verifyArgsUsed and the return.
LoadSolveEnd ==
    /\ phase = "dfs"
    /\ sv.stk = << >>
    /\ result' = solveEnd([sv EXCEPT !.index = heap[sv.index].table], Deref(heap, pset))
    /\ sv' = [sv EXCEPT !.done = TRUE]
    /\ phase' = "solved"
    /\ UNCHANGED <<cache, buildErrs, decl, inj, pset, code, run, heap>>

\* The declaration is done with: its errors are noted (ec.add and
\* "continue" in the loops of Load) or the injector is appended to
\* info.Injectors.  Nothing leads to the set of an injector, the maps of the
\* set and the index any more.  Load goes on with the next declaration.
NextDecl ==
    /\ phase \in {"solved", "failed"}
    /\ phase' = "sets"
    /\ heap' = IF phase = "solved" THEN SubSeq(heap, 1, pset - 1) ELSE heap
    /\ buildErrs' = << >>
    /\ inj' = None
    /\ pset' = None
    /\ sv' = None
    /\ result' = None
    /\ UNCHANGED <<cache, decl, code, run>>

NextLoad ==
    LoadSet \/ LoadInjector \/ LoadSolveBegin \/ LoadSolveStep \/ LoadSolveEnd \/ NextDecl

SpecLoad == InitBuild /\ [][NextLoad]_vars

\* What Load decides for an injector whose set was built: the injector is
\* appended to info.Injectors iff solve returns no error.
loadRecords(in, set) == solve(in.out, in.given, set).errs = << >>

----------------------------------------------------------------------------
(* Generation of one injector (generateInjectors, wire.go) and a run of    *)
(* the function it emits.                                                  *)

\* The last m types below t, ascending.
LastTypes(t, m) == [i \in 1..m |-> t - m + i - 1]

\* What the injector's set declares for type t: nothing, a value, or a
\* function provider that takes the types just below t, MaxArgs at most.
InjectOpt(t) ==
    {[kind |-> "none", args |-> << >>, to |-> 0],
     [kind |-> "value", args |-> << >>, to |-> 0],
     [kind |-> "provider", args |-> LastTypes(t, IF t - 1 < MaxArgs THEN t - 1 ELSE MaxArgs),
      to |-> 0]}

RECURSIVE InjectShapes(_)
InjectShapes(n) ==
    IF n = 0 THEN {<< >>}
    ELSE {Append(s, o) : s \in InjectShapes(n - 1), o \in InjectOpt(n)}

\* <<HasCleanup, HasErr>> for the provider of each type.
FlagsOf(shape) ==
    {f \in [Types -> BOOLEAN \X BOOLEAN] :
       \A t \in Types : shape[t].kind # "provider" => f[t] = <<FALSE, FALSE>>}

\* The names the file scope of the generated package may already hold.
Scopes == {{}, {errIdent}, {cleanupIdent}}

\* The values of a run.  Result(k), Cleanup(k) and Failure(k) are what the
\* call of statement k returned; a name that is not declared in the
\* function denotes the object of that name in file scope.
Result(k) == [kind |-> "result", of |-> k]
Cleanup(k) == [kind |-> "cleanup", of |-> k]
Failure(k) == [kind |-> "error", of |-> k]
Param(i) == [kind |-> "param", of |-> i]
Zero(t) == [kind |-> "zero", of |-> t]
Nil == [kind |-> "nil", of |-> 0]
FileObject(name) == [kind |-> "file scope", of |-> name]

Lookup(env, name) == IF name \in DOMAIN env THEN env[name] ELSE FileObject(name)

\* name1, name2, ... := v1, v2, ...
RECURSIVE Assign(_, _, _)
Assign(env, names, vals) ==
    IF names = << >> THEN env
    ELSE Assign(MapSet(env, Head(names), Head(vals)), Tail(names), Tail(vals))

CallEvent(k) == [ev |-> "call", what |-> Result(k)]
CleanupEvent(v) == [ev |-> "cleanup", what |-> v]

\* name1(); name2(); ...
Invoke(env, names) == [i \in 1..Len(names) |-> CleanupEvent(Lookup(env, names[i]))]

InitInject ==
    /\ phase = "inject"
    /\ cache = << >>
    /\ buildErrs = << >>
    /\ \E shape \in InjectShapes(NumTypes), out \in Types, scope \in Scopes :
         \E flags \in FlagsOf(shape), given \in Givens(shape), c, e \in BOOLEAN :
           /\ decl = DeclOf(shape, flags)
           /\ inj = Injector(out, given, c, e, scope)
    /\ pset = None
    /\ sv = None
    /\ result = None
    /\ code = None
    /\ run = None
    /\ heap = << >>

\* The body of the loop of generateInjectors for one injector:
\* processNewSet on the wire.Build call, then g.inject.
Inject ==
    /\ phase = "inject"
    /\ \E ord \in IterOrders(decl) :
         LET b == processNewSet(decl, << >>, ord)
             r == inject(inj, b.set)
         IN IF ~b.ok
            THEN /\ buildErrs' = b.errs
                 /\ phase' = "failed"
                 /\ UNCHANGED <<pset, result, code>>
            ELSE /\ pset' = b.set
                 /\ result' = [errs |-> r.errs]
                 /\ phase' = IF r.errs # << >> THEN "rejected" ELSE "generated"
                 /\ code' = IF r.errs # << >> THEN code ELSE r.fn
                 /\ UNCHANGED buildErrs
    /\ UNCHANGED <<cache, decl, inj, sv, run, heap>>

\* The emitted injector is called.
RunStart ==
    /\ phase = "generated"
    /\ run' = [pc |-> 1,
               env |-> Assign(EmptyMap, code.params, [i \in 1..Len(code.params) |-> Param(i)]),
               log |-> << >>, failedAt |-> 0, ret |-> None]
    /\ phase' = "running"
    /\ UNCHANGED <<cache, buildErrs, decl, inj, pset, sv, result, code, heap>>

\* The statement of a provider call and the "if" that follows it; fails is
\* whether the provider returns a non-nil error.
RunFuncCall(st, k, fails) ==
    LET env1 == Assign(run.env, <<st.lname>> \o st.cname \o st.errName,
                       <<IF fails THEN Zero(0) ELSE Result(k)>>
                         \o (IF st.cname = << >> THEN << >> ELSE <<Cleanup(k)>>)
                         \o (IF st.errName = << >> THEN << >>
                             ELSE <<IF fails THEN Failure(k) ELSE Nil>>))
        called == Append(run.log, CallEvent(k))
    IN IF st.onErr # << >> /\ Lookup(env1, st.onErr[1].test) # Nil
       THEN [pc |-> k, env |-> env1,
             log |-> called \o Invoke(env1, st.onErr[1].cleanups),
             failedAt |-> k,
             ret |-> [value |-> Zero(st.onErr[1].zero),
                      cleanup |-> IF st.onErr[1].nilCleanup THEN <<Nil>> ELSE << >>,
                      err |-> <<Lookup(env1, st.onErr[1].err)>>]]
       ELSE [run EXCEPT !.pc = k + 1, !.env = env1, !.log = called]

\* One statement of the body.
RunStmt ==
    /\ phase = "running"
    /\ run.pc <= Len(code.body)
    /\ LET k == run.pc
           st == code.body[k]
       IN CASE st.kind = "funcProviderCall" ->
                 \E fails \in (IF st.errName = << >> THEN {FALSE} ELSE BOOLEAN) :
                   run' = RunFuncCall(st, k, fails)
            [] st.kind = "structProvider" ->
                 run' = [run EXCEPT !.pc = k + 1, !.env = MapSet(@, st.lname, Result(k)),
                                    !.log = Append(@, CallEvent(k))]
            [] st.kind = "valueExpr" ->
                 run' = [run EXCEPT !.pc = k + 1,
                                    !.env = MapSet(@, st.lname, Lookup(run.env, st.value)),
                                    !.log = Append(@, CallEvent(k))]
    /\ phase' = IF run'.failedAt # 0 THEN "returned" ELSE "running"
    /\ UNCHANGED <<cache, buildErrs, decl, inj, pset, sv, result, code, heap>>

\* The final return statement: the value, the cleanup closure (the list of
\* the functions it calls, in order) and nil.
RunReturn ==
    /\ phase = "running"
    /\ run.pc > Len(code.body)
    /\ run' = [run EXCEPT !.ret =
                 [value |-> Lookup(run.env, code.ret.value),
                  cleanup |-> IF code.ret.cleanup = << >> THEN << >>
                              ELSE <<[kind |-> "closure",
                                      of |-> Invoke(run.env, code.ret.cleanup[1])]>>,
                  err |-> IF code.ret.err = << >> THEN << >> ELSE <<Nil>>]]
    /\ phase' = "returned"
    /\ UNCHANGED <<cache, buildErrs, decl, inj, pset, sv, result, code, heap>>

\* The caller invokes the cleanup closure a successful injector returned.
RunCleanup ==
    /\ phase = "returned"
    /\ run.failedAt = 0
    /\ run.ret.cleanup # << >>
    /\ run' = [run EXCEPT !.log = @ \o run.ret.cleanup[1].of]
    /\ phase' = "cleaned"
    /\ UNCHANGED <<cache, buildErrs, decl, inj, pset, sv, result, code, heap>>

NextInject == Inject \/ RunStart \/ RunStmt \/ RunReturn \/ RunCleanup

SpecInject == InitInject /\ [][NextInject]_vars

----------------------------------------------------------------------------
(* findInjectorBuild (parse.go): is a function declaration an injector?    *)

\* The statements of a function body, by what findInjectorBuild tells apart:
\* the expression statements wire.Build(...), panic(wire.Build(...)), a
\* panic call with another or no single call as argument, a call of another
\* function and an expression that is no call; the empty statement, the
\* return statement, and every other statement.
ExprStmts == {"Build", "panic(Build)", "panic(other)", "call", "expr"}
Stmts == ExprStmts \cup {"EmptyStmt", "ReturnStmt", "other"}

\* The call the statement is to, once a panic around it is unwrapped
\* ("none" where the code says continue before it has a call).
CallIn(stmt) ==
    CASE stmt = "Build" -> "wire.Build"
      [] stmt = "panic(Build)" -> "wire.Build"
      [] stmt = "panic(other)" -> "none"
      [] stmt = "call" -> "other"
      [] stmt = "expr" -> "none"

NotInjector == [kind |-> "nil"]
InjectorError == [kind |-> "error"]
BuildCall(i) == [kind |-> "call", stmt |-> i]

\* The loop over fn.Body.List from statement i on; st holds numStatements,
\* invalid and wireBuildCall (the statement of the call, 0 for nil).
RECURSIVE FindFrom(_, _, _)
FindFrom(body, i, st) ==
    IF i > Len(body)
    THEN IF st.wireBuildCall = 0 THEN NotInjector
         ELSE IF st.invalid THEN InjectorError
         ELSE BuildCall(st.wireBuildCall)
    ELSE IF body[i] \in ExprStmts
    THEN LET n == st.numStatements + 1
             counted == [st EXCEPT !.numStatements = n, !.invalid = @ \/ n > 1]
         IN FindFrom(body, i + 1,
                     IF CallIn(body[i]) = "wire.Build"
                     THEN [counted EXCEPT !.wireBuildCall = i]
                     ELSE counted)
    ELSE IF body[i] = "EmptyStmt" THEN FindFrom(body, i + 1, st)
    ELSE IF body[i] = "ReturnStmt"
    THEN IF st.numStatements = 0 THEN NotInjector ELSE FindFrom(body, i + 1, st)
    ELSE FindFrom(body, i + 1, [st EXCEPT !.invalid = TRUE])

\* findInjectorBuild(info, fn)
findInjectorBuild(fn) ==
    IF ~fn.hasBody THEN NotInjector
    ELSE FindFrom(fn.body, 1, [numStatements |-> 0, invalid |-> FALSE, wireBuildCall |-> 0])

FuncDecl(hasBody, body) == [kind |-> "FuncDecl", hasBody |-> hasBody, body |-> body]

\* A function declaration of the package: without a body, or with a body of
\* up to MaxStmts statements.
InitFind ==
    /\ phase = "decl"
    /\ cache = << >>
    /\ buildErrs = << >>
    /\ decl \in {FuncDecl(FALSE, << >>)} \cup {FuncDecl(TRUE, b) : b \in SeqsUpTo(Stmts, MaxStmts)}
    /\ inj = None
    /\ pset = None
    /\ sv = None
    /\ result = None
    /\ code = None
    /\ run = None
    /\ heap = << >>

\* buildCall, err := findInjectorBuild(&pkgInfo.Info, fn)
FindInjector ==
    /\ phase = "decl"
    /\ result' = findInjectorBuild(decl)
    /\ phase' = "found"
    /\ UNCHANGED <<cache, buildErrs, decl, inj, pset, sv, code, run, heap>>

NextFind == FindInjector

SpecFind == InitFind /\ [][NextFind]_vars

----------------------------------------------------------------------------
(* The diff subcommand (cmd/wire/main.go) and the exit code of main.       *)

\* difflib.SplitLines: strings.SplitAfter(s, "\n") with a newline added to
\* the last piece.  A file is a sequence of characters.
RECURSIVE SplitLines(_)
SplitLines(s) ==
    IF \E i \in 1..Len(s) : s[i] = "\n"
    THEN LET i == CHOOSE i \in 1..Len(s) : s[i] = "\n" /\ \A j \in 1..(i - 1) : s[j] # "\n"
         IN <<SubSeq(s, 1, i)>> \o SplitLines(SubSeq(s, i + 1, Len(s)))
    ELSE <<Append(s, "\n")>>

\* What wire.Generate and the file system hold for one package: whether
\* generation had errors, the generated content, the output file as it is
\* (unreadable, or its bytes) and whether computing the diff fails.
Unreadable == [kind |-> "unreadable"]
PkgOuts ==
    [Errs : BOOLEAN, Content : {<< >>, <<"a", "\n">>, <<"b", "\n">>},
     File : {Unreadable, << >>, <<"a", "\n">>}, DiffErr : BOOLEAN]

\* cur, _ := ioutil.ReadFile(out.OutputPath)
ReadFile(out) == IF out.File = Unreadable THEN << >> ELSE out.File

\* The body of "for _, out := range outs" for one package; st holds success
\* and hadDiff.
DiffOne(st, out) ==
    LET noted == IF out.Errs THEN [st EXCEPT !.success = FALSE] ELSE st
    IN IF Len(out.Content) = 0 THEN noted
       ELSE IF out.DiffErr THEN [noted EXCEPT !.success = FALSE]
       ELSE IF SplitLines(ReadFile(out)) # SplitLines(out.Content)
       THEN [noted EXCEPT !.hadDiff = TRUE]
       ELSE noted

\* As ExitCode, with main setting 1 whenever diff returned an error.
ExitCodeOverridden(failed, hadDiff) == IF failed \/ hadDiff THEN 1 ELSE 0

\* The exit code of main for what diff returns: 2 with an error, else 1 with
\* a diff, else 0; an error turns an exit code of 0 into 1.
ExitCode(failed, hadDiff) ==
    LET r == IF failed THEN [exitCode |-> 2, err |-> TRUE]
             ELSE [exitCode |-> IF hadDiff THEN 1 ELSE 0, err |-> FALSE]
    IN IF r.err /\ r.exitCode = 0 THEN 1 ELSE r.exitCode

\* wire diff on some packages: os.Getwd or wire.Generate may fail as a
\* whole ("getwd", "generate"), else there is an outcome for each package.
InitDiff ==
    /\ phase = "diff"
    /\ cache = << >>
    /\ buildErrs = << >>
    /\ decl \in {[load |-> l, outs |-> << >>] : l \in {"getwd", "generate"}}
                  \cup {[load |-> "ok", outs |-> o] : o \in SeqsUpTo(PkgOuts, MaxPkgs)}
    /\ inj = None
    /\ pset = None
    /\ sv = [i |-> 1, success |-> TRUE, hadDiff |-> FALSE]
    /\ result = None
    /\ code = None
    /\ run = None
    /\ heap = << >>

\* One iteration of the loop over outs.
DiffPackage ==
    /\ phase = "diff"
    /\ decl.load = "ok"
    /\ sv.i <= Len(decl.outs)
    /\ sv' = [DiffOne(sv, decl.outs[sv.i]) EXCEPT !.i = sv.i + 1]
    /\ UNCHANGED <<phase, cache, buildErrs, decl, inj, pset, result, code, run, heap>>

\* diff returns and main exits.
DiffExit ==
    /\ phase = "diff"
    /\ decl.load # "ok" \/ sv.i > Len(decl.outs)
    /\ result' = [exitCode |-> ExitCode(decl.load # "ok" \/ ~sv.success, sv.hadDiff)]
    /\ phase' = "exit"
    /\ UNCHANGED <<cache, buildErrs, decl, inj, pset, sv, code, run, heap>>

SpecDiff == InitDiff /\ [][DiffPackage \/ DiffExit]_vars

----------------------------------------------------------------------------
(* The loops over the function declarations of a package: the one of Load  *)
(* (parse.go) and the one of generateInjectors (wire.go).                  *)

\* The injectors a package can declare: wire.Build names one or two declared
\* members, the first of them a provider, and the function returns type 1
\* or type 2.
InjectorDecls ==
    {[items |-> s, out |-> o] :
       s \in {x \in SeqsUpTo(Catalogue, 2) : x # << >> /\ x[1].kind = "Provider"},
       o \in 1..2}

\* The body of the loop of Load for the injector fn, the i-th declaration:
\* the errors of processNewSet or of solve are added to ec and the loop
\* continues; otherwise the injector is appended to info.Injectors.
loadFuncDecl(st, fn, i, ord) ==
    LET r == processNewSet(NewSetOf(0, 0, fn.items), ArgErrors(fn.items), ord)
        sol == solve(fn.out, << >>, r.set)
    IN IF ~r.ok THEN [st EXCEPT !.errs = st.errs \o [k \in 1..Len(r.errs) |-> <<i, r.errs[k]>>]]
       ELSE IF sol.errs # << >>
       THEN [st EXCEPT !.errs = st.errs \o [k \in 1..Len(sol.errs) |-> <<i, sol.errs[k]>>]]
       ELSE [st EXCEPT !.Injectors = Append(st.Injectors, i)]

\* The body of the loop of generateInjectors for the injector fn: the errors
\* of processNewSet or of g.inject are returned at once; otherwise the code
\* of the injector was written.
generateFuncDecl(st, fn, i, ord) ==
    LET r == processNewSet(NewSetOf(0, 0, fn.items), ArgErrors(fn.items), ord)
        g == inject(Injector(fn.out, << >>, FALSE, FALSE, {}), r.set)
    IN IF ~r.ok
       THEN [st EXCEPT !.returned = TRUE, !.written = << >>,
                       !.errs = [k \in 1..Len(r.errs) |-> <<i, r.errs[k]>>]]
       ELSE IF g.errs # << >>
       THEN [st EXCEPT !.returned = TRUE, !.written = << >>,
                       !.errs = [k \in 1..Len(g.errs) |-> <<i, g.errs[k]>>]]
       ELSE [st EXCEPT !.written = Append(st.written, i)]

\* A package of up to MaxDecls injectors; Load runs over it, then
\* generateInjectors does.
InitPkg ==
    /\ phase = "load"
    /\ cache = << >>
    /\ buildErrs = << >>
    /\ \E n \in 1..MaxDecls : decl \in [1..n -> InjectorDecls]
    /\ inj = None
    /\ pset = None
    /\ sv = [i |-> 1, Injectors |-> << >>, errs |-> << >>]
    /\ result = None
    /\ code = [i |-> 1, written |-> << >>, errs |-> << >>, returned |-> FALSE]
    /\ run = None
    /\ heap = << >>

\* One iteration of "for _, decl := range f.Decls" in Load.
LoadFuncDecl ==
    /\ phase = "load"
    /\ sv.i <= Len(decl)
    /\ \E ord \in IterOrders(NewSetOf(0, 0, decl[sv.i].items)) :
         sv' = [loadFuncDecl(sv, decl[sv.i], sv.i, ord) EXCEPT !.i = sv.i + 1]
    /\ UNCHANGED <<phase, cache, buildErrs, decl, inj, pset, result, code, run, heap>>

\* return info, ec.errors
LoadReturn ==
    /\ phase = "load"
    /\ sv.i > Len(decl)
    /\ phase' = "generate"
    /\ result' = [Injectors |-> sv.Injectors, errs |-> sv.errs]
    /\ UNCHANGED <<cache, buildErrs, decl, inj, pset, sv, code, run, heap>>

\* One iteration of the loop in generateInjectors.
GenFuncDecl ==
    /\ phase = "generate"
    /\ ~code.returned
    /\ code.i <= Len(decl)
    /\ \E ord \in IterOrders(NewSetOf(0, 0, decl[code.i].items)) :
         code' = [generateFuncDecl(code, decl[code.i], code.i, ord) EXCEPT !.i = code.i + 1]
    /\ UNCHANGED <<phase, cache, buildErrs, decl, inj, pset, sv, result, run, heap>>

\* return injectorFiles, nil
GenReturn ==
    /\ phase = "generate"
    /\ ~code.returned
    /\ code.i > Len(decl)
    /\ code' = [code EXCEPT !.returned = TRUE]
    /\ UNCHANGED <<phase, cache, buildErrs, decl, inj, pset, sv, result, run, heap>>

NextPkg == LoadFuncDecl \/ LoadReturn \/ GenFuncDecl \/ GenReturn

SpecPkg == InitPkg /\ [][NextPkg]_vars

----------------------------------------------------------------------------
(* disambiguate (wire.go) on its own: a name and the names that collide.   *)

\* The keywords of Go (go/token).
GoKeywords ==
    {<<"b", "r", "e", "a", "k">>, <<"d", "e", "f", "a", "u", "l", "t">>,
     <<"f", "u", "n", "c">>, <<"i", "n", "t", "e", "r", "f", "a", "c", "e">>,
     <<"s", "e", "l", "e", "c", "t">>, <<"c", "a", "s", "e">>,
     <<"d", "e", "f", "e", "r">>, <<"g", "o">>, <<"m", "a", "p">>,
     <<"s", "t", "r", "u", "c", "t">>, <<"c", "h", "a", "n">>,
     <<"e", "l", "s", "e">>, <<"g", "o", "t", "o">>,
     <<"p", "a", "c", "k", "a", "g", "e">>, <<"s", "w", "i", "t", "c", "h">>,
     <<"c", "o", "n", "s", "t">>,
     <<"f", "a", "l", "l", "t", "h", "r", "o", "u", "g", "h">>, <<"i", "f">>,
     <<"r", "a", "n", "g", "e">>, <<"t", "y", "p", "e">>,
     <<"c", "o", "n", "t", "i", "n", "u", "e">>, <<"f", "o", "r">>,
     <<"i", "m", "p", "o", "r", "t">>, <<"r", "e", "t", "u", "r", "n">>,
     <<"v", "a", "r">>}

\* The names asked for: identifiers of up to MaxNameLen characters.
Names ==
    {n \in SeqsUpTo({"g", "o", "1"}, MaxNameLen) : n # << >> /\ n[1] \notin Range(Digits)}

\* The names that can collide with a name: the name itself and the name
\* followed by a number up to MaxSuffix, with and without "_" in between.
Candidates(name) ==
    {name} \cup {AppendInt(name, n) : n \in 2..MaxSuffix}
           \cup {AppendInt(Append(name, "_"), n) : n \in 2..MaxSuffix}

InitNames ==
    /\ phase = "name"
    /\ cache = << >>
    /\ buildErrs = << >>
    /\ \E name \in Names : \E taken \in SUBSET Candidates(name) :
         decl = [name |-> name, taken |-> taken]
    /\ inj = None
    /\ pset = None
    /\ sv = None
    /\ result = None
    /\ code = None
    /\ run = None
    /\ heap = << >>

\* disambiguate(name, collides)
Disambiguate ==
    /\ phase = "name"
    /\ result' = disambiguate(decl.name, decl.taken)
    /\ phase' = "named"
    /\ UNCHANGED <<cache, buildErrs, decl, inj, pset, sv, code, run, heap>>

NextNames == Disambiguate

SpecNames == InitNames /\ [][NextNames]_vars

----------------------------------------------------------------------------
(* Properties of the sets processNewSet builds.                            *)

\* processNewSet has returned for the set declared by decl, all of whose
\* arguments were converted: buildProviderMap was called for it.
Processed == phase \in {"sets", "failed"} /\ decl # None

\* The set declared by decl was built and cached.
Built == Processed /\ phase = "sets"

\* The routes by which a declared set d supplies type t: its imports that
\* hold t, the outputs of its providers, its values, and its bindings of t
\* as an interface.
ImportRoutes(d, t) == {i \in 1..Len(d.Imports) : t \in DOMAIN d.Imports[i].providerMap}

ProviderRoutes(d, t) ==
    {<<i, j>> \in (1..Len(d.Providers)) \X (1..2) :
       j <= Len(d.Providers[i].Out) /\ d.Providers[i].Out[j] = t}

ValueRoutes(d, t) == {i \in 1..Len(d.Values) : d.Values[i].Out = t}

\* t is supplied by an import, a provider or a value of d.
Supplies(d, t) ==
    ImportRoutes(d, t) # {} \/ ProviderRoutes(d, t) # {} \/ ValueRoutes(d, t) # {}

BindingsOf(d, t) == {i \in 1..Len(d.Bindings) : d.Bindings[i].Iface = t}

\* The keys of the map when the i-th binding of d is processed, if the
\* imports, providers and values of d were added without error: the types
\* they supply and the interfaces of the bindings accepted before.
RECURSIVE KeysBefore(_, _)
KeysBefore(d, i) ==
    IF i <= 1 THEN {t \in Types : Supplies(d, t)}
    ELSE LET ks == KeysBefore(d, i - 1)
             b == d.Bindings[i - 1]
         IN IF b.Iface \notin ks /\ b.Provided \in ks THEN ks \cup {b.Iface} ELSE ks

\* A binding supplies its interface when the type it is bound to is a key.
BindingRoutes(d, t) == {i \in BindingsOf(d, t) : d.Bindings[i].Provided \in KeysBefore(d, i)}

NumRoutes(d, t) ==
    Cardinality(ImportRoutes(d, t)) + Cardinality(ProviderRoutes(d, t))
      + Cardinality(ValueRoutes(d, t)) + Cardinality(BindingRoutes(d, t))

\* The descriptions of the members of d that name type t.
RouteDescs(d, t) ==
    {description(SrcImport(d.Imports[i])) : i \in ImportRoutes(d, t)}
      \cup {description(SrcProvider(d.Providers[r[1]])) : r \in ProviderRoutes(d, t)}
      \cup {description(SrcValue(d.Values[i])) : i \in ValueRoutes(d, t)}
      \cup {description(SrcBinding(d.Bindings[i])) : i \in BindingsOf(d, t)}

\* A source trace for type t that ends at a member of d: the declaring
\* member first, then the sets it was imported through.
IsTraceOf(tr, d, t) ==
    /\ Len(tr) >= 1
    /\ tr[Len(tr)] \in RouteDescs(d, t)
    /\ tr[1].what # "provider set"
    /\ \A i \in 2..Len(tr) : tr[i].what = "provider set"

ConflictErrors == {i \in 1..Len(buildErrs) : buildErrs[i].kind = "conflict"}

\* C9: a set is built only if no type has two routes, and its map then holds
\* exactly the types that have one.  When a type has two
\* routes (two direct members, a direct member and an import, two imports)
\* the set is not built and a binding-conflict error is reported for a type
\* with two routes; every binding-conflict error carries the source traces of
\* two suppliers of its type, the current one and the previous one.
C9_ConflictReported ==
    Processed =>
      /\ Built =>
           /\ \A t \in Types : NumRoutes(decl, t) <= 1
           /\ DOMAIN cache[Len(cache)].val.providerMap = {t \in Types : NumRoutes(decl, t) = 1}
      /\ (\E t \in Types : NumRoutes(decl, t) >= 2) =>
           /\ ~Built
           /\ \E i \in ConflictErrors : NumRoutes(decl, buildErrs[i].typ) >= 2
      /\ \A i \in ConflictErrors :
           /\ IsTraceOf(buildErrs[i].current, decl, buildErrs[i].typ)
           /\ IsTraceOf(buildErrs[i].previous, decl, buildErrs[i].typ)

\* Two imported sets supply the same type from different declarations, and
\* the conflict is reported with both traces.
C9_Witness ==
    /\ Processed
    /\ \E i \in ConflictErrors :
         /\ Len(buildErrs[i].current) >= 2
         /\ Len(buildErrs[i].previous) >= 2
         /\ buildErrs[i].current[1] # buildErrs[i].previous[1]

\* The set that declares type t itself, followed from the imported set imp.
RECURSIVE OriginSet(_, _)
OriginSet(imp, t) ==
    IF imp.srcMap[t].kind = "Import" THEN OriginSet(imp.srcMap[t].Import, t)
    ELSE imp.VarName

\* Type t reaches d only through imports, and all of them lead to one and
\* the same set.
SameSetOnly(d, t) ==
    /\ ProviderRoutes(d, t) = {} /\ ValueRoutes(d, t) = {} /\ BindingsOf(d, t) = {}
    /\ \A i, j \in ImportRoutes(d, t) :
         OriginSet(d.Imports[i], t) = OriginSet(d.Imports[j], t)

\* C10 as stated: a type that reaches the declared set only through imports
\* of one and the same set, along more than one import path, is merged once:
\* no binding conflict is reported for it.
C10_ImportsDeduplicated ==
    Processed =>
      \A t \in Types :
        (NumRoutes(decl, t) >= 2 /\ SameSetOnly(decl, t)) =>
          \A i \in ConflictErrors : buildErrs[i].typ # t

\* The imports, providers and values of d supply no type twice, so that
\* buildProviderMap reaches the bindings.
ReachesBindings(d) ==
    \A t \in Types :
      Cardinality(ImportRoutes(d, t)) + Cardinality(ProviderRoutes(d, t))
        + Cardinality(ValueRoutes(d, t)) <= 1

\* The i-th binding of d is accepted: its interface is not a key yet and the
\* type it is bound to is one.
Accepts(d, i) ==
    /\ d.Bindings[i].Iface \notin KeysBefore(d, i)
    /\ d.Bindings[i].Provided \in KeysBefore(d, i)

\* The bindings of d that are not accepted, in order.
Rejected(d) == SelectSeq(Idx(Len(d.Bindings)), LAMBDA i : ~Accepts(d, i))

\* e is the error of the i-th binding of d: a conflict on its interface when
\* that is a key already, else "no binding" for the type it is bound to.
IsBindingError(e, d, i) ==
    IF d.Bindings[i].Iface \in KeysBefore(d, i)
    THEN /\ e.kind = "conflict"
         /\ e.typ = d.Bindings[i].Iface
         /\ e.current = <<description(SrcBinding(d.Bindings[i]))>>
    ELSE /\ e.kind = "no binding"
         /\ e.typ = d.Bindings[i].Provided
         /\ e.pos = d.Bindings[i].Pos

\* C11: when the imports, providers and values were added without error, a
\* binding is accepted if and only if its interface is not a key and the
\* type it is bound to is a key at that point (a key that comes from an
\* imported set counts); each binding that is not accepted has its own
\* error, and when all are accepted the set is built, every interface maps
\* to the very entry of the type it is bound to and its source is the binding.
C11_BindingAccepted ==
    (Processed /\ ReachesBindings(decl)) =>
      /\ Len(buildErrs) = Len(Rejected(decl))
      /\ \A n \in 1..Len(Rejected(decl)) :
           IsBindingError(buildErrs[n], decl, Rejected(decl)[n])
      /\ Rejected(decl) = << >> =>
           /\ Built
           /\ \A i \in 1..Len(decl.Bindings) :
                LET b == decl.Bindings[i]
                    built == cache[Len(cache)].val
                IN /\ b.Iface \in DOMAIN built.providerMap
                   /\ built.providerMap[b.Iface] = built.providerMap[b.Provided]
                   /\ built.srcMap[b.Iface] = SrcBinding(b)

\* A set is built with a binding whose provided type comes only from an
\* imported set.
C11_Witness ==
    /\ Built
    /\ \E i \in 1..Len(decl.Bindings) :
         /\ ImportRoutes(decl, decl.Bindings[i].Provided) # {}
         /\ ProviderRoutes(decl, decl.Bindings[i].Provided) = {}
         /\ ValueRoutes(decl, decl.Bindings[i].Provided) = {}
         /\ cache[Len(cache)].val.srcMap[decl.Bindings[i].Iface] = SrcBinding(decl.Bindings[i])

\* The conflicts among the imports, providers and values of d: one for
\* every route to a type beyond the first.
EarlyConflicts(d) ==
    LET n(t) == Cardinality(ImportRoutes(d, t)) + Cardinality(ProviderRoutes(d, t))
                  + Cardinality(ValueRoutes(d, t))
        RECURSIVE Sum(_)
        Sum(t) == IF t = 0 THEN 0 ELSE (IF n(t) > 1 THEN n(t) - 1 ELSE 0) + Sum(t - 1)
    IN Sum(NumTypes)

\* C17: one invocation of buildProviderMap reports every conflict among the
\* imports, providers, values and bindings of the set - one error for every
\* further route to a type and one for every binding that is not accepted -
\* and the caller has either the complete map and no error or no map and
\* errors.
C17_AllErrorsCollected ==
    Processed =>
      /\ Len(buildErrs) = EarlyConflicts(decl) + Len(Rejected(decl))
      /\ Built <=> buildErrs = << >>
      /\ Built => DOMAIN cache[Len(cache)].val.providerMap = {t \in Types : NumRoutes(decl, t) >= 1}

----------------------------------------------------------------------------
(* Properties of verifyAcyclic: the dependency graph of a provider map.    *)

\* The types the entry of k in the map m asks for.
Needed(m, k) ==
    IF k \in DOMAIN m /\ IsProvider(m[k]) THEN Range(m[k].p.Args) ELSE {}

\* The types reached from the set S of types in at most n further steps.
RECURSIVE ReachedFrom(_, _, _)
ReachedFrom(m, S, n) ==
    IF n = 0 THEN S
    ELSE ReachedFrom(m, S \cup UNION {Needed(m, k) : k \in S}, n - 1)

\* The types k depends on, directly or not.
DependsOn(m, k) == ReachedFrom(m, Needed(m, k), NumTypes)

HasCycle(m) == \E k \in DOMAIN m : k \in DependsOn(m, k)

\* The maps buildProviderMap makes of the declared set.
MapsOf(d) == buildProviderMap(d, CHOOSE o \in IterOrders(d) : TRUE)

\* processNewSet has run on the declared set of the injector.
SetProcessed == phase \in {"solve", "dfs", "solved", "failed"}

\* C12: when buildProviderMap made a map of the declared set, the set is
\* rejected with cycle errors only if and only if the graph of that map has
\* a cycle, and is built otherwise; the graph of every built set is acyclic.
C12_AcyclicOrRejected ==
    /\ SetProcessed =>
         LET b == MapsOf(decl)
         IN b.errs = << >> =>
              IF HasCycle(b.providerMap)
              THEN /\ phase = "failed"
                   /\ buildErrs # << >>
                   /\ \A i \in 1..Len(buildErrs) : buildErrs[i].kind = "cycle"
              ELSE /\ phase # "failed"
                   /\ pset.providerMap = b.providerMap
    /\ (SetProcessed /\ phase # "failed") => ~HasCycle(pset.providerMap)

\* A set is rejected whose only cycle runs through an interface binding:
\* no provider asks for one of its own outputs, yet the map has a cycle.
C12_Witness ==
    /\ phase = "failed"
    /\ MapsOf(decl).errs = << >>
    /\ buildErrs # << >>
    /\ \A i \in 1..Len(decl.Providers) :
         Range(decl.Providers[i].Args) \cap Range(decl.Providers[i].Out) = {}
    /\ \E i \in 1..Len(decl.Bindings) :
         decl.Bindings[i].Iface \in DependsOn(MapsOf(decl).providerMap, decl.Bindings[i].Iface)

\* The keys of m that lie on a cycle with k, k among them.
Component(m, k) == {j \in DOMAIN m : j \in DependsOn(m, k) /\ k \in DependsOn(m, j)}

\* The strongly connected components of m that hold a cycle.
CyclicComponents(m) == {Component(m, k) : k \in {j \in DOMAIN m : j \in DependsOn(m, j)}}

\* The edges inside the components: a key and a type it asks for that
\* depends on the key in turn.
InnerEdges(m) ==
    {e \in (DOMAIN m) \X Types : e[2] \in Needed(m, e[1]) /\ e[1] \in DependsOn(m, e[2])}

\* The types on the trail of a cycle error.
TrailTypes(e) == {e.trail[i][1] : i \in 1..Len(e.trail)}

\* The declared set was rejected by the acyclicity check alone.
CycleRejected ==
    /\ phase = "failed"
    /\ pset = None
    /\ sv = None
    /\ result = None
    /\ buildErrs # << >>
    /\ \A i \in 1..Len(buildErrs) : buildErrs[i].kind = "cycle"

\* C13 as stated: a declared graph with a cycle is rejected with exactly one
\* cycle error for each strongly connected component, the solver is not run
\* and there is no call list.
C13_OneErrorPerComponent ==
    (SetProcessed /\ MapsOf(decl).errs = << >> /\ HasCycle(MapsOf(decl).providerMap)) =>
      /\ CycleRejected
      /\ Len(buildErrs) = Cardinality(CyclicComponents(MapsOf(decl).providerMap))

\* C13, amended: a declared graph with a cycle is rejected, the solver is not
\* run and there is no call list; every strongly connected component that
\* holds a cycle has at least one cycle error, every cycle error has its
\* trail inside one such component, and there are at most as many errors as
\* there are edges inside the components (one for each edge that closes a
\* trail during the walk).
C13_ErrorsPerComponent ==
    SetProcessed =>
      LET b == MapsOf(decl)
          m == b.providerMap
          cs == CyclicComponents(m)
      IN (b.errs = << >> /\ HasCycle(m)) =>
           /\ CycleRejected
           /\ \A c \in cs : \E i \in 1..Len(buildErrs) : TrailTypes(buildErrs[i]) \subseteq c
           /\ \A i \in 1..Len(buildErrs) :
                /\ buildErrs[i].typ \in TrailTypes(buildErrs[i])
                /\ \E c \in cs : TrailTypes(buildErrs[i]) \subseteq c
           /\ Len(buildErrs) <= Cardinality(InnerEdges(m))

\* A set with two components is rejected with more errors than components.
C13_Witness ==
    /\ CycleRejected
    /\ MapsOf(decl).errs = << >>
    /\ Cardinality(CyclicComponents(MapsOf(decl).providerMap)) >= 2
    /\ Len(buildErrs) > Cardinality(CyclicComponents(MapsOf(decl).providerMap))

----------------------------------------------------------------------------
(* Properties of the checks solve makes of the injector's parameters.      *)

\* The pairs of parameters of one type.
SameTypePairs(given) ==
    {pr \in (1..Len(given)) \X (1..Len(given)) : pr[1] < pr[2] /\ given[pr[1]] = given[pr[2]]}

\* What the declared set d supplies type g by: a provider, a value, or
\* whatever the type an interface is bound to is supplied by.
RECURSIVE SuppliedBy(_, _)
SuppliedBy(d, g) ==
    IF \E i \in 1..Len(d.Providers) : g \in Range(d.Providers[i].Out)
    THEN LET i == CHOOSE i \in 1..Len(d.Providers) : g \in Range(d.Providers[i].Out)
         IN [kind |-> "provider", name |-> d.Providers[i].Name]
    ELSE IF \E i \in 1..Len(d.Values) : d.Values[i].Out = g
    THEN LET i == CHOOSE i \in 1..Len(d.Values) : d.Values[i].Out = g
         IN [kind |-> "value", name |-> d.Values[i].Pos]
    ELSE IF \E i \in 1..Len(d.Bindings) : d.Bindings[i].Iface = g
    THEN LET i == CHOOSE i \in 1..Len(d.Bindings) : d.Bindings[i].Iface = g
         IN SuppliedBy(d, d.Bindings[i].Provided)
    ELSE [kind |-> "nothing", name |-> 0]

\* The parameters whose type the declared set supplies, in order.
ConflictingInputs(d, given) ==
    SelectSeq(Idx(Len(given)), LAMBDA i : SuppliedBy(d, given[i]).kind # "nothing")

InputErrorKinds ==
    {"multiple inputs", "input conflicts with provider", "input conflicts with value"}

\* solve has made its checks of the parameters.
InputsChecked == phase \in {"dfs", "solved"}

\* C14: solve returns, before any step of the traversal and with no call
\* list, one "multiple inputs" error for each pair of parameters of one
\* type, followed by one "input conflicts" error for each parameter whose
\* type the set supplies (by a provider, a value or a binding), in the order
\* of the parameters; when there is no such pair and no such parameter it
\* reports no error of these kinds.
C14_InputErrorsCollected ==
    InputsChecked =>
      LET given == inj.given
          pairs == SameTypePairs(given)
          np == Cardinality(pairs)
          cf == ConflictingInputs(decl, given)
      IN IF np + Len(cf) > 0
         THEN /\ phase = "solved"
              /\ result.calls = << >>
              /\ sv.calls = << >> /\ sv.stk = << >> /\ sv.used = << >>
              /\ Len(result.errs) = np + Len(cf)
              /\ \A n \in 1..np : result.errs[n].kind = "multiple inputs"
              /\ \A g \in Types :
                   Cardinality({n \in 1..np : result.errs[n].typ = g})
                     = Cardinality({pr \in pairs : given[pr[1]] = g})
              /\ \A n \in 1..Len(cf) :
                   LET e == result.errs[np + n]
                       by == SuppliedBy(decl, given[cf[n]])
                   IN /\ e.kind = IF by.kind = "provider" THEN "input conflicts with provider"
                                  ELSE "input conflicts with value"
                      /\ e.typ = given[cf[n]]
                      /\ e.name = by.name
         ELSE /\ \A n \in 1..Len(sv.errs) : sv.errs[n].kind \notin InputErrorKinds
              /\ phase = "solved" =>
                   \A n \in 1..Len(result.errs) : result.errs[n].kind \notin InputErrorKinds

\* solve returned errors of both kinds at once, one of them for a parameter
\* whose type the set supplies through a binding.
C14_Witness ==
    /\ phase = "solved"
    /\ SameTypePairs(inj.given) # {}
    /\ \E n \in 1..Len(result.errs) :
         /\ result.errs[n].kind \in {"input conflicts with provider", "input conflicts with value"}
         /\ \E i \in 1..Len(decl.Bindings) : decl.Bindings[i].Iface = result.errs[n].typ
    /\ result.calls = << >>

----------------------------------------------------------------------------
(* Properties of verifyArgsUsed.                                           *)

\* The types the plan asks for: the output of the injector and the
\* parameters of its calls.
Requested(calls) == {inj.out} \cup UNION {Range(calls[i].ins) : i \in 1..Len(calls)}

\* The member m of kind k is used by the plan: a provider or value is called,
\* an interface binding is what a requested type is supplied by, an imported
\* set holds a requested type.
UsedByPlan(calls, k, m) ==
    CASE k = "Provider" ->
           \E i \in 1..Len(calls) : calls[i].kind # "valueExpr" /\ calls[i].name = m.Name
      [] k = "Value" ->
           \E i \in 1..Len(calls) : calls[i].kind = "valueExpr" /\ calls[i].name = m.Pos
      [] k = "Binding" -> m.Iface \in Requested(calls)
      [] k = "Import" -> Requested(calls) \cap DOMAIN m.providerMap # {}

UnusedByPlan(list, k, calls) ==
    LET miss == SelectSeq(list, LAMBDA m : ~UsedByPlan(calls, k, m))
    IN [i \in 1..Len(miss) |-> unusedError(k, miss[i])]

\* The traversal of solve ended without an error.
TraversalClean == phase = "solved" /\ sv.stk = << >> /\ sv.errs = << >>

\* C15: after a traversal without error, solve reports exactly one "unused"
\* diagnostic for each direct member of the set that the plan does not use,
\* in the order of the members, and returns the plan when there is none.
C15_UnusedReported ==
    TraversalClean =>
      LET unused == UnusedByPlan(pset.Imports, "Import", sv.calls)
                      \o UnusedByPlan(pset.Providers, "Provider", sv.calls)
                      \o UnusedByPlan(pset.Values, "Value", sv.calls)
                      \o UnusedByPlan(pset.Bindings, "Binding", sv.calls)
      IN /\ result.errs = unused
         /\ unused = << >> => result.calls = sv.calls

----------------------------------------------------------------------------
(* Properties of Load: what the passes leave alone.                        *)

\* The objects a set consists of: the set at address a, its two maps, and
\* the objects of the sets it imports.
RECURSIVE ObjectsOf(_, _)
ObjectsOf(h, a) ==
    {a, h[a].providerMap, h[a].srcMap}
      \cup UNION {ObjectsOf(h, h[a].Imports[i]) : i \in 1..Len(h[a].Imports)}

\* The sets that were built: those oc.get has returned, and the set of the
\* injector whose solve is under way.
BuiltSets ==
    {cache[j].val : j \in {k \in 1..Len(cache) : cache[k].errs = << >>}}
      \cup (IF phase \in {"solve", "dfs"} THEN {pset} ELSE {})

\* C18: a set that was built stays as it is: no step of Load - the
\* construction of a later set, one that imports it or not, the
\* construction of the set of an injector, or any step of a solve on it or
\* on a set that imports it, whether the solve ends in a plan or in errors -
\* changes the set object, its member lists, its providerMap or its srcMap,
\* nor those of the sets it imports.
C18_BuiltSetsImmutable ==
    [][\A a \in BuiltSets :
         \A o \in ObjectsOf(heap, a) : o \in DOMAIN heap' /\ heap'[o] = heap[o]]_vars

\* A solve has ended, in a plan or in errors, for an injector that imports
\* the first set, which a later set imports as well.
C18_Witness ==
    /\ phase = "solved"
    /\ Len(cache) >= 2
    /\ cache[1].errs = << >> /\ cache[2].errs = << >>
    /\ \E i \in 1..Len(heap[cache[2].val].Imports) :
         heap[cache[2].val].Imports[i] = cache[1].val
    /\ \E i \in 1..Len(heap[pset].Imports) : heap[pset].Imports[i] = cache[1].val

----------------------------------------------------------------------------
(* Properties of findInjectorBuild.                                        *)

\* The statements of the body that are neither empty nor a return.
ProperStmts(body) == SelectSeq(body, LAMBDA x : x \notin {"EmptyStmt", "ReturnStmt"})

IsBuildStmt(x) == x \in {"Build", "panic(Build)"}

HasBuild(body) == \E i \in 1..Len(body) : IsBuildStmt(body[i])

\* C19: a function is taken for an injector if and only if the only
\* statement of its body that is neither empty nor a return is a call to
\* wire.Build, possibly as the argument of panic; without a Build call the
\* function is passed over without an error; with a Build call and another
\* such statement there is an error.
C19_InjectorRecognized ==
    phase = "found" =>
      LET proper == ProperStmts(decl.body)
      IN /\ result.kind = "call" <=> (Len(proper) = 1 /\ IsBuildStmt(proper[1]))
         /\ ~HasBuild(decl.body) => result = NotInjector
         /\ (HasBuild(decl.body) /\ Len(proper) >= 2) => result = InjectorError

----------------------------------------------------------------------------
(* Properties of the diff subcommand.                                      *)

\* Loading, generation or diffing failed, for the run or for a package.
DiffFailed ==
    \/ decl.load # "ok"
    \/ \E i \in 1..Len(decl.outs) :
         decl.outs[i].Errs \/ (decl.outs[i].Content # << >> /\ decl.outs[i].DiffErr)

\* The generated content of package i is not what its output file holds,
\* an unreadable file holding nothing.
Differs(i) ==
    decl.outs[i].Content # (IF decl.outs[i].File = Unreadable THEN << >> ELSE decl.outs[i].File)

\* C20 as stated: the exit code is 2 if something failed for a package,
\* else 1 if the generated content of a package differs from its output
\* file, else 0.
C20_ExitCodeOfDiff ==
    phase = "exit" =>
      result.exitCode = IF DiffFailed THEN 2
                        ELSE IF \E i \in 1..Len(decl.outs) : Differs(i) THEN 1
                        ELSE 0

\* C20, amended: the exit code is 2 if something failed for a package, even
\* when another package has a diff; else 1 if a package has generated
\* content and it differs from its output file (an unreadable file holding
\* nothing); else 0.  A package without generated content is passed over
\* whatever its output file holds.
C20_ExitCodeOfDiffWithContent ==
    phase = "exit" =>
      result.exitCode = IF DiffFailed THEN 2
                        ELSE IF \E i \in 1..Len(decl.outs) :
                                  decl.outs[i].Content # << >> /\ Differs(i)
                        THEN 1
                        ELSE 0

\* diff exits with 2 for a run in which one package failed and another has
\* a diff against an unreadable output file.
C20_Witness ==
    /\ phase = "exit"
    /\ result.exitCode = 2
    /\ \E i, j \in 1..Len(decl.outs) :
         /\ decl.outs[i].Errs
         /\ ~decl.outs[j].Errs /\ ~decl.outs[j].DiffErr
         /\ decl.outs[j].Content # << >> /\ decl.outs[j].File = Unreadable

----------------------------------------------------------------------------
(* Properties of the call list solve returns.                              *)

\* solve has returned a call list and no error.
Solved == phase = "solved" /\ result.errs = << >>

NGiven == Len(inj.given)

\* The call that fills slot a (a >= NGiven).
CallOfSlot(a) == result.calls[a - NGiven + 1]

\* The concrete type the built set binds t to (t itself when t is no bound interface).
BoundTo(t) == IF t \in DOMAIN pset.providerMap THEN ConcreteType(pset.providerMap[t]) ELSE t

\* C1: every argument of every returned call is type-correct: a slot below
\* the number of givens holds the given of the argument's type, any other
\* slot is filled by the call whose output is the argument's type or the
\* concrete type the set binds that type to.
C1_ArgsTypeCorrect ==
    Solved =>
      \A k \in 1..Len(result.calls) :
        LET c == result.calls[k]
        IN /\ Len(c.args) = Len(c.ins)
           /\ \A i \in 1..Len(c.args) :
                IF c.args[i] < NGiven
                THEN c.args[i] >= 0 /\ inj.given[c.args[i] + 1] = c.ins[i]
                ELSE /\ c.args[i] - NGiven + 1 \in 1..Len(result.calls)
                     /\ \/ CallOfSlot(c.args[i]).out = c.ins[i]
                        \/ /\ BoundTo(c.ins[i]) # c.ins[i]
                           /\ CallOfSlot(c.args[i]).out = BoundTo(c.ins[i])

\* A returned plan in which a call reads an earlier call through an
\* interface binding and another argument directly.
C1_Witness ==
    /\ Solved
    /\ \E k \in 1..Len(result.calls) :
         LET c == result.calls[k]
         IN /\ \E i \in 1..Len(c.args) :
                 c.args[i] >= NGiven /\ CallOfSlot(c.args[i]).out # c.ins[i]
            /\ \E i \in 1..Len(c.args) :
                 c.args[i] >= NGiven /\ CallOfSlot(c.args[i]).out = c.ins[i]

\* C2: an argument of the k-th call (counting from 0) is a slot in 0..N+k-1:
\* a given or the result of a strictly earlier call.
C2_ArgsEarlier ==
    Solved =>
      \A k \in 1..Len(result.calls) :
        \A i \in 1..Len(result.calls[k].args) :
          /\ 0 <= result.calls[k].args[i]
          /\ result.calls[k].args[i] < NGiven + (k - 1)

\* A returned plan whose last call reads a given and the call just before it.
C2_Witness ==
    /\ Solved
    /\ Len(result.calls) >= 2
    /\ LET c == result.calls[Len(result.calls)]
       IN /\ \E i \in 1..Len(c.args) : c.args[i] < NGiven
          /\ \E i \in 1..Len(c.args) : c.args[i] = NGiven + Len(result.calls) - 2

OutIsGiven == \E i \in 1..NGiven : inj.given[i] = inj.out

\* C3 as stated: the injector's output type is the output of the last call
\* and of no other, unless it is a given, and then there is no call.
C3_OutputIsLastCall ==
    Solved =>
      IF OutIsGiven THEN result.calls = << >>
      ELSE /\ result.calls # << >>
           /\ \A k \in 1..Len(result.calls) :
                result.calls[k].out = inj.out <=> k = Len(result.calls)

\* C3 amended: the last call, and no other, produces the injector's output
\* type or, when the set binds that type as an interface, the concrete type
\* it is bound to; when the output type is a given there is no call.
C3_OutputOrBoundIsLastCall ==
    Solved =>
      IF OutIsGiven THEN result.calls = << >>
      ELSE /\ result.calls # << >>
           /\ \A k \in 1..Len(result.calls) :
                result.calls[k].out = BoundTo(inj.out) <=> k = Len(result.calls)
           /\ BoundTo(inj.out) # inj.out =>
                \A k \in 1..Len(result.calls) : result.calls[k].out # inj.out

\* A returned plan of several calls for an output that is a bound interface.
C3_Witness ==
    /\ Solved
    /\ BoundTo(inj.out) # inj.out
    /\ Len(result.calls) >= 2
    /\ result.calls[Len(result.calls)].out = BoundTo(inj.out)

\* C4: no two calls of a returned list have the same output type.
C4_OutputsDistinct ==
    Solved =>
      \A j, k \in 1..Len(result.calls) :
        j # k => result.calls[j].out # result.calls[k].out

\* A returned plan in which two later calls read the same earlier call.
C4_Witness ==
    /\ Solved
    /\ \E j, k \in 1..Len(result.calls) :
         /\ j < k
         /\ \E a \in Range(result.calls[j].args) \cap Range(result.calls[k].args) :
              a >= NGiven

\* The interfaces the built set binds, that solve has resolved.
ResolvedBindings == {t \in DOMAIN pset.providerMap \cap DOMAIN sv.index : BoundTo(t) # t}

\* C5: a resolved interface binding has no call of its own; it has the slot
\* of the one call that constructs its concrete type.
C5_BindingSharesSlot ==
    Solved =>
      \A t \in ResolvedBindings :
        /\ \A k \in 1..Len(result.calls) : result.calls[k].out # t
        /\ sv.index[t] >= NGiven
        /\ CallOfSlot(sv.index[t]).out = BoundTo(t)
        /\ Cardinality({k \in 1..Len(result.calls) :
                          result.calls[k].out = BoundTo(t)}) = 1

\* A returned plan in which one call takes both an interface and the
\* concrete type bound to it.
C5_Witness ==
    /\ Solved
    /\ \E k \in 1..Len(result.calls) :
         \E t \in ResolvedBindings :
           {t, BoundTo(t)} \subseteq Range(result.calls[k].ins)

----------------------------------------------------------------------------
(* Properties of gen.inject and of the injector it emits.                  *)

\* g.inject has returned for the injector at hand.
InjectDone == phase \in {"rejected", "generated", "running", "returned", "cleaned"}

\* The injector was emitted.
Generated == phase \in {"generated", "running", "returned", "cleaned"}

\* The plan solve returns for the injector.
Plan == solve(inj.out, inj.given, pset)

Compatible(c) == (c.hasCleanup => inj.cleanup) /\ (c.hasErr => inj.err)

\* C6: an injector is emitted only if its plan exists and every call that
\* returns a cleanup or an error finds it declared by the signature; when a
\* call of the plan does not, inject emits nothing and returns one error
\* that names the mismatch.
C6_SignatureCompatible ==
    InjectDone =>
      /\ Generated =>
           /\ Plan.errs = << >>
           /\ \A k \in 1..Len(Plan.calls) : Compatible(Plan.calls[k])
      /\ (Plan.errs = << >> /\ \E k \in 1..Len(Plan.calls) : ~Compatible(Plan.calls[k])) =>
           /\ phase = "rejected"
           /\ code = None
           /\ Len(result.errs) = 1
           /\ result.errs[1].kind \in {"provider returns cleanup", "provider returns error"}

\* The signature declares a cleanup that the plan needs but not the error a
\* call of the plan returns, and inject rejects it.
C6_Witness ==
    /\ phase = "rejected"
    /\ Plan.errs = << >>
    /\ inj.cleanup /\ ~inj.err
    /\ \E k \in 1..Len(Plan.calls) : Plan.calls[k].hasCleanup
    /\ result.errs[1].kind = "provider returns error"

\* The cleanups of the calls before the k-th that return one, latest first.
CleanupsBelow(k) ==
    LET js == SelectSeq(Reverse(Idx(k - 1)), LAMBDA j : Plan.calls[j].hasCleanup)
    IN [i \in 1..Len(js) |-> CleanupEvent(Cleanup(js[i]))]

\* The calls 1..k were made, in order.
CallsUpTo(k) == [j \in 1..k |-> CallEvent(j)]

\* The injector returned from the error branch of its k-th call.
FailedAt(k) == phase = "returned" /\ run.failedAt = k

\* After the k-th call failed: the calls 1..k were made and no other, then
\* the cleanups of the earlier calls ran, each once, latest first; the
\* cleanup of the k-th call did not run.
UnwindsLIFO ==
    \A k \in 1..NumTypes :
      FailedAt(k) => run.log = CallsUpTo(k) \o CleanupsBelow(k)

\* C7 as stated: when the k-th call returns a non-nil error, exactly the
\* cleanups of the earlier calls run, each once and latest first, no later
\* call is made, and the injector returns the zero value of its output
\* type, a nil cleanup if it declares one, and that error.
C7_ErrorUnwinds ==
    /\ UnwindsLIFO
    /\ \A k \in 1..NumTypes :
         FailedAt(k) =>
           run.ret = [value |-> Zero(inj.out),
                      cleanup |-> IF inj.cleanup THEN <<Nil>> ELSE << >>,
                      err |-> <<Failure(k)>>]

\* The calls the k-th call of the plan reads, directly or through others.
RECURSIVE Needs(_)
Needs(k) ==
    LET direct == {j \in 1..(k - 1) : NGiven + j - 1 \in Range(Plan.calls[k].args)}
    IN direct \cup UNION {Needs(j) : j \in direct}

\* The place of the cleanup of call k among the events of the run, or 0.
CleanupAt(k) ==
    LET is == {i \in 1..Len(run.log) : run.log[i] = CleanupEvent(Cleanup(k))}
    IN IF is = {} THEN 0 ELSE CHOOSE i \in is : \A j \in is : i <= j

\* C8: once a successful injector's cleanup closure was invoked, the cleanup
\* of every call of the plan that returns one has run exactly once, latest
\* call first, so the cleanup of a call runs before the cleanups of the
\* calls it depends on.
C8_ClosureRunsLIFO ==
    phase = "cleaned" =>
      /\ run.log = CallsUpTo(Len(Plan.calls)) \o CleanupsBelow(Len(Plan.calls) + 1)
      /\ \A k \in 1..Len(Plan.calls) : \A j \in Needs(k) :
           (Plan.calls[k].hasCleanup /\ Plan.calls[j].hasCleanup) =>
             /\ 0 < CleanupAt(k)
             /\ CleanupAt(k) < CleanupAt(j)

\* The closure of a plan of three calls has run, the first and the last of
\* which return a cleanup, the last depending on the first.
C8_Witness ==
    /\ phase = "cleaned"
    /\ Len(Plan.calls) >= 3
    /\ \E j, k \in 1..Len(Plan.calls) :
         /\ k > j + 1
         /\ j \in Needs(k)
         /\ Plan.calls[j].hasCleanup /\ Plan.calls[k].hasCleanup
         /\ ~Plan.calls[j + 1].hasCleanup

----------------------------------------------------------------------------
(* Properties of the loops over the declarations of a package.             *)

\* The diagnostics of the i-th injector of the package taken alone: those of
\* building its set, or else those of solving it.
OwnErrs(i) ==
    LET r == processNewSet(NewSetOf(0, 0, decl[i].items), ArgErrors(decl[i].items), << >>)
    IN IF ~r.ok THEN r.errs ELSE solve(decl[i].out, << >>, r.set).errs

\* The diagnostics of injector i among the reported ones.
ReportedFor(errs, i) ==
    LET own == SelectSeq(errs, LAMBDA e : e[1] = i)
    IN [k \in 1..Len(own) |-> own[k][2]]

LoadReturned == phase = "generate"

GenReturned == phase = "generate" /\ code.returned

\* C21: a failure in one injector or its set blocks only that injector:
\* when a run over the package has returned, the diagnostics of every
\* injector of the package are among the reported ones, in Load and in
\* generateInjectors alike, and Load has recorded exactly the injectors
\* whose set was built and whose solve returned no error.
C21_FailureIsLocal ==
    /\ LoadReturned =>
         /\ \A i \in 1..Len(decl) : ReportedFor(result.errs, i) = OwnErrs(i)
         /\ result.Injectors = SelectSeq(Idx(Len(decl)), LAMBDA i : OwnErrs(i) = << >>)
    /\ GenReturned =>
         \A i \in 1..Len(decl) : ReportedFor(code.errs, i) = OwnErrs(i)

\* The part of C21 that is about Load.
LoadFailureIsLocal ==
    LoadReturned =>
      /\ \A i \in 1..Len(decl) : ReportedFor(result.errs, i) = OwnErrs(i)
      /\ result.Injectors = SelectSeq(Idx(Len(decl)), LAMBDA i : OwnErrs(i) = << >>)

----------------------------------------------------------------------------
(* Properties of disambiguate.                                             *)

\* A Go identifier over the characters of the model: a letter or "_", then
\* letters, digits and "_".
IsIdent(x) ==
    /\ x # << >>
    /\ x[1] \notin Range(Digits)
    /\ \A i \in 1..Len(x) : x[i] \in {"g", "o", "_"} \cup Range(Digits)

\* A name that can be used as it is.
Qualifies(x, taken) == IsIdent(x) /\ x \notin taken /\ x \notin GoKeywords

\* What the numbers are appended to.
SuffixBase(name) == IF EndsInDigit(name) THEN Append(name, "_") ELSE name

\* C22: disambiguate returns an identifier that does not collide and is not
\* a keyword: the name itself when it qualifies, and otherwise the name
\* followed by the smallest number from 2 on (after "_" when the name ends
\* in a digit) for which the result qualifies.
C22_FreshIdentifier ==
    phase = "named" =>
      /\ Qualifies(result, decl.taken)
      /\ Qualifies(decl.name, decl.taken) => result = decl.name
      /\ ~Qualifies(decl.name, decl.taken) =>
           \E n \in 2..(MaxSuffix + 1) :
             /\ result = AppendInt(SuffixBase(decl.name), n)
             /\ \A m \in 2..(n - 1) :
                  ~Qualifies(AppendInt(SuffixBase(decl.name), m), decl.taken)

\* The same for names that are not keywords.
FreshUnlessKeyword == decl.name \notin GoKeywords => C22_FreshIdentifier

----------------------------------------------------------------------------
(* Properties of the used list of solve.                                   *)

\* The types solve has visited with success: they have a slot.
Resolved ==
    {t \in DOMAIN sv.index \cap DOMAIN pset.srcMap : sv.index[t] # errAbort}

\* C23: whenever solve has visited a type of the set with success - a
\* provider, a value or an interface bound to either - the member that
\* introduced the type is in the used list, so that no member the plan
\* depends on is reported as unused.
C23_VisitedAreUsed ==
    phase \in {"dfs", "solved"} =>
      /\ \A t \in Resolved : \E i \in 1..Len(sv.used) : sv.used[i] = pset.srcMap[t]
      /\ TraversalClean =>
           Range(result.errs) \subseteq
             Range(UnusedByPlan(pset.Imports, "Import", sv.calls)
                     \o UnusedByPlan(pset.Providers, "Provider", sv.calls)
                     \o UnusedByPlan(pset.Values, "Value", sv.calls)
                     \o UnusedByPlan(pset.Bindings, "Binding", sv.calls))

----------------------------------------------------------------------------
(* Properties of solve on sets that lack a provider.                       *)

\* What solve pushes for type t: the type an interface is bound to, or the
\* parameters of the provider of t.
Wants(t) ==
    IF t \notin DOMAIN pset.providerMap THEN {}
    ELSE IF BoundTo(t) # t THEN {BoundTo(t)}
    ELSE IF IsProvider(pset.providerMap[t]) THEN Range(pset.providerMap[t].p.Args)
    ELSE {}

\* The types reached from the types of S in at most n steps of Wants.
RECURSIVE WantedFrom(_, _)
WantedFrom(S, n) ==
    IF n = 0 THEN S ELSE WantedFrom(S \cup UNION {Wants(t) : t \in S}, n - 1)

\* The types the output of the injector needs, itself included; solve does
\* not look behind a parameter of the injector.
Reach == WantedFrom({inj.out}, NumTypes)

\* The types nothing supplies: neither the set nor a parameter.
Unprovided == {t \in Types : t \notin DOMAIN pset.providerMap /\ t \notin Range(inj.given)}

\* The types that cannot be built: they are missing or need a missing type.
Errored == {t \in Reach : WantedFrom({t}, NumTypes) \cap Unprovided # {}}

\* The dfs loop of solve has run to its end.
TraversalDone == phase = "solved" /\ ~solveBegin(inj.out, inj.given, pset).done

\* C24: solve reports one "no provider found" error for every type that the
\* output needs and nothing supplies, and no other error; every type that
\* needs such a type (a provider through its arguments, an interface through
\* the type it is bound to) is marked errored and no call is emitted for it;
\* solve then returns the errors and no call list.
C24_MissingProvidersReported ==
    TraversalDone =>
      LET missing == Reach \cap Unprovided
      IN /\ Len(sv.errs) = Cardinality(missing)
         /\ \A t \in missing :
              \E i \in 1..Len(sv.errs) :
                sv.errs[i].kind = "no provider found" /\ sv.errs[i].typ = t
         /\ \A t \in Reach : (sv.index[t] = errAbort) <=> t \in Errored
         /\ \A i \in 1..Len(sv.calls) : sv.calls[i].out \notin Errored
         /\ missing # {} => result.calls = << >> /\ result.errs = sv.errs

\* An interface is bound to a provider with an argument that nothing
\* supplies: the three of them are marked errored.
C24_Witness ==
    /\ TraversalDone
    /\ \E t \in Errored :
         /\ BoundTo(t) # t
         /\ BoundTo(t) \in Errored \ Unprovided
         /\ sv.index[t] = errAbort
    /\ result.calls = << >>
    /\ result.errs # << >>

----------------------------------------------------------------------------
(* Properties of the stack of solve.                                       *)

\* The stack without its top frame.
Popped == SubSeq(sv.stk, 1, Len(sv.stk) - 1)

\* The frame on top of the stack.
Top == sv.stk[Len(sv.stk)]

\* The iteration drops a frame whose type has a slot already.
DropsVisited ==
    /\ Top.t \in DOMAIN sv.index
    /\ sv'.stk = Popped
    /\ sv'.index = sv.index

\* The iteration gives the type of the frame a slot, or marks it errored.
AssignsSlot ==
    /\ Top.t \notin DOMAIN sv.index
    /\ sv'.stk = Popped
    /\ DOMAIN sv'.index = DOMAIN sv.index \cup {Top.t}

\* The iteration pushes the frame back, for the first time, under one frame
\* for each type it needs that has no slot yet.
PushesBack ==
    LET pushed == SubSeq(sv'.stk, Len(sv.stk) + 1, Len(sv'.stk))
    IN /\ Top.t \notin DOMAIN sv.index
       /\ run.pushes[Top.t] = 0
       /\ sv'.index = sv.index
       /\ SubSeq(sv'.stk, 1, Len(sv.stk)) = sv.stk
       /\ pushed # << >>
       /\ NoDup(pushed)
       /\ {pushed[i].t : i \in 1..Len(pushed)} = Wants(Top.t) \ DOMAIN sv.index

\* An iteration of the dfs loop is followed by another one.
Iterates == phase = "dfs" /\ phase' = "dfs"

\* C25 as stated: solve terminates on every set that was built; every
\* iteration of its loop gives the type of the popped frame a slot or pushes
\* the frame back with the arguments that have no slot, the latter at most
\* once for each type.
C25_EveryPopAssignsOrPushes ==
    /\ [][Iterates => AssignsSlot \/ PushesBack]_vars
    /\ phase = "solve" ~> phase = "solved"

\* C25, amended: solve terminates on every set that was built; every
\* iteration of its loop drops a frame whose type has a slot already, gives
\* the type of the popped frame a slot, or pushes the frame back with the
\* arguments that have no slot, the last at most once for each type.
C25_SolveTerminates ==
    /\ [][Iterates => DropsVisited \/ AssignsSlot \/ PushesBack]_vars
    /\ phase = "solve" ~> phase = "solved"

\* A solve has ended after pushing the frames of two types back and after
\* dropping a frame whose type had a slot already.
C25_Witness ==
    /\ phase = "solved"
    /\ Cardinality({t \in Types : run.pushes[t] = 1}) >= 2
    /\ Len(sv.calls) = NumTypes
    /\ \E i \in 1..Len(sv.calls) : sv.calls[i].ins = <<2, 1>>
    /\ \E i \in 1..Len(sv.calls) : sv.calls[i].ins = <<1>>

----------------------------------------------------------------------------
(* Properties of the order of the calls.                                   *)

\* The depth-first traversal from type t that visits the arguments of a
\* provider in declared order and lists a type after what it needs
\* (post-order); acc holds the types listed so far.  An interface has no
\* entry of its own: the type it is bound to is listed.
RECURSIVE PostOrder(_, _), PostOrderArgs(_, _, _)
PostOrder(t, acc) ==
    IF t \in Range(acc) \/ t \in Range(inj.given) \/ t \notin DOMAIN pset.providerMap THEN acc
    ELSE IF BoundTo(t) # t THEN PostOrder(BoundTo(t), acc)
    ELSE IF IsProvider(pset.providerMap[t])
    THEN Append(PostOrderArgs(pset.providerMap[t].p.Args, 1, acc), t)
    ELSE Append(acc, t)

PostOrderArgs(args, k, acc) ==
    IF k > Len(args) THEN acc ELSE PostOrderArgs(args, k + 1, PostOrder(args[k], acc))

\* The types the calls of a list produce, in order.
OutsOf(calls) == [i \in 1..Len(calls) |-> calls[i].out]

\* C26: the calls are in argument-declared order: the call list solve
\* returns is the post-order of the depth-first traversal from the output
\* that visits the arguments of each provider in the order they are
\* declared.
C26_CallsInPostOrder ==
    Solved => OutsOf(result.calls) = PostOrder(inj.out, << >>)

\* A provider takes the types 2 and 1 in this order, and the provider of
\* type 2 takes type 1: the calls are those of 1, 2 and 3.
C26_Witness ==
    /\ Solved
    /\ OutsOf(result.calls) = <<1, 2, 3>>
    /\ result.calls[3].ins = <<2, 1>>
    /\ result.calls[2].ins = <<1>>

----------------------------------------------------------------------------
(* Properties of the diagnostics of processNewSet.                         *)

\* processNewSet has returned.
SetDone == phase \in {"solve", "failed"}

\* C27: the diagnostics of the construction of a set are the same, in
\* content and in order, on every run: they do not depend on the order in
\* which the maps of the imported sets are iterated.
C27_DiagnosticsDeterministic ==
    SetDone => \A ord \in IterOrders(decl) : processNewSet(decl, << >>, ord).errs = buildErrs

\* The same, for the content of the diagnostics only.
DiagnosticsSameContent ==
    SetDone =>
      \A ord \in IterOrders(decl) :
        /\ Range(processNewSet(decl, << >>, ord).errs) = Range(buildErrs)
        /\ Len(processNewSet(decl, << >>, ord).errs) = Len(buildErrs)

----------------------------------------------------------------------------
(* Properties of the calls of a plan: none is superfluous.                 *)

\* The slot the k-th call of the list fills.
SlotOf(k) == NGiven + k - 1

\* C28: every call of a returned call list is needed: it produces the
\* output of the injector (or the type the output is bound to), or a later
\* call of the list reads its slot; and it produces a type the output
\* needs.
C28_EveryCallNeeded ==
    Solved =>
      \A k \in 1..Len(result.calls) :
        /\ \/ result.calls[k].out = BoundTo(inj.out)
           \/ \E j \in (k + 1)..Len(result.calls) :
                \E i \in 1..Len(result.calls[j].args) :
                  /\ result.calls[j].args[i] = SlotOf(k)
                  /\ BoundTo(result.calls[j].ins[i]) = result.calls[k].out
        /\ result.calls[k].out \in Reach

\* A plan of two calls: the first is read by the second through an
\* interface binding, and the second produces the output.
C28_Witness ==
    /\ Solved
    /\ Len(result.calls) = 2
    /\ result.calls[2].out = inj.out
    /\ \E i \in 1..Len(result.calls[2].args) :
         /\ result.calls[2].args[i] = SlotOf(1)
         /\ result.calls[2].ins[i] # result.calls[1].out

----------------------------------------------------------------------------
(* Properties of Load and gen.inject taken together.                       *)

\* C29: Load and code generation agree on the injectors that are valid: an
\* injector that Load records for a set and a signature is one that
\* gen.inject emits for them; none of its calls returns a cleanup or an
\* error that the signature does not declare.
C29_LoadAgreesWithInject ==
    InjectDone /\ loadRecords(inj, pset) =>
      /\ Generated
      /\ \A k \in 1..Len(Plan.calls) : Compatible(Plan.calls[k])

\* Load records exactly the injectors that have a plan.
LoadRecordsPlans == InjectDone => (loadRecords(inj, pset) <=> Plan.errs = << >>)

----------------------------------------------------------------------------
(* Properties of the error branch funcProviderCall emits.                  *)

\* The statements of the emitted injector that call a provider returning an
\* error.
FailingCalls ==
    {k \in 1..Len(code.body) :
       code.body[k].kind = "funcProviderCall" /\ code.body[k].onErr # << >>}

\* C30: in the error branch emitted after a provider call that returns an
\* error, the identifier tested against nil and the identifier returned as
\* the error of the injector are one variable: the error variable the call
\* assigns, which is the name disambiguation chose for err in the file
\* scope.
C30_ErrorVariableReturned ==
    Generated =>
      \A k \in FailingCalls :
        /\ code.body[k].onErr[1].test = code.body[k].onErr[1].err
        /\ code.body[k].errName = <<code.body[k].onErr[1].test>>
        /\ code.body[k].onErr[1].test = disambiguate(errIdent, inj.scope)

\* The same for files whose scope does not hold the name err.
ErrorVariableReturnedUnlessTaken == errIdent \notin inj.scope => C30_ErrorVariableReturned

====
